---- MODULE Spec2Model ----
(***************************************************************************)
(* Verification development of the web-3d-app client (Vue components over  *)
(* a REST backend).  Each component is a state machine over its own        *)
(* variables; one specification per component drives only that            *)
(* component's handlers and leaves the other components' variables alone.  *)
(* Text is a sequence of one-character strings, so that split, trim and    *)
(* toLowerCase are computed and not assumed.                               *)
(***************************************************************************)
EXTENDS Integers, Sequences, FiniteSets, TLC

VARIABLES
    last,              \* the handler that ran last, with its input (history)
    \* ---- ModelUploader (src/unnamed/part_000)
    selectedFile, modelName, modelDescription, upError, isUploading, uploadProgress,
    upInFlight, upPosts, upEmitted,
    \* ---- ModelDrawer, custom coordinates (src/unnamed/part_001)
    loadedCoordinates, fileName, pendingReads, drAlert,
    \* ---- the pages: SceneView, CreateModelView and the drawing requests of
    \*      ModelDrawer (src/frontend/src/views, src/unnamed/part_001)
    route, createdModels, availableModels, selectedModels, isDrawing, drawingResult,
    drawRequests, drawn,
    \* ---- SimpleModelViewer (src/frontend/src/components/SimpleModelViewer.vue)
    mounted, controls, editMode, selectedObject, isDragging, moveStep, loadedModels,
    untracked, runs, edits, materials,
    \* ---- HomeView and ModelList, with the model store of the backend
    \*      (src/frontend/src/views/SceneView.vue, second part; ModelList.vue)
    serverModels, homeModels, loading, homeError, requests,
    \* ---- ModelAnalyzer (src/frontend/src/components/ModelAnalyzer.vue)
    storage, savedDescriptions, selectedModelId, clock,
    \* ---- the texture requests of SimpleModelViewer
    availableTextures, serverTextures, textureCalls,
    \* ---- the fetches of ModelSelector and ModelView
    \*      (src/frontend/src/components/ModelSelector.vue, views/ModelView.vue)
    modelSelector, modelView

uploaderVars == <<selectedFile, modelName, modelDescription, upError, isUploading,
                  uploadProgress, upInFlight, upPosts, upEmitted>>

drawerVars == <<loadedCoordinates, fileName, pendingReads, drAlert>>

pageVars == <<route, createdModels, availableModels, selectedModels, isDrawing,
              drawingResult, drawRequests, drawn>>

viewerVars == <<mounted, controls, editMode, selectedObject, isDragging, moveStep,
                loadedModels, untracked, runs, edits, materials>>

homeVars == <<serverModels, homeModels, loading, homeError, requests>>

analyzerVars == <<storage, savedDescriptions, selectedModelId, clock>>

assetVars == <<availableTextures, serverTextures, textureCalls>>

fetchVars == <<modelSelector, modelView>>

vars == <<last, uploaderVars, drawerVars, pageVars, viewerVars, homeVars, analyzerVars,
          assetVars, fetchVars>>

\* Frames: a handler of one component leaves every other component alone
UploaderOnly == UNCHANGED <<drawerVars, pageVars, viewerVars, homeVars, analyzerVars,
                            assetVars, fetchVars>>
DrawerOnly == UNCHANGED <<uploaderVars, pageVars, viewerVars, homeVars, analyzerVars,
                          assetVars, fetchVars>>
OutsideScene == UNCHANGED <<uploaderVars, drawerVars, homeVars, analyzerVars, assetVars, fetchVars>>
SceneOnly == OutsideScene /\ UNCHANGED materials

(***************************************************************************)
(* Text helpers: the JavaScript string methods the handlers use.           *)
(***************************************************************************)
\* String.prototype.toLowerCase
toLowerCase(s) ==
    LET upper == <<"A", "B", "C", "D", "E", "F", "G", "H", "I", "J", "K", "L", "M",
                   "N", "O", "P", "Q", "R", "S", "T", "U", "V", "W", "X", "Y", "Z">>
        lower == <<"a", "b", "c", "d", "e", "f", "g", "h", "i", "j", "k", "l", "m",
                   "n", "o", "p", "q", "r", "s", "t", "u", "v", "w", "x", "y", "z">>
        low(c) == IF \E i \in 1..26 : upper[i] = c
                  THEN lower[CHOOSE i \in 1..26 : upper[i] = c]
                  ELSE c
    IN  [i \in 1..Len(s) |-> low(s[i])]

\* String.prototype.split(sep) for a one-character separator: the segments
\* between separators, in order (always at least one segment).
split(s, sep) ==
    LET RECURSIVE from(_, _)
        from(rest, cur) ==
            IF rest = <<>> THEN <<cur>>
            ELSE IF Head(rest) = sep THEN <<cur>> \o from(Tail(rest), <<>>)
            ELSE from(Tail(rest), Append(cur, Head(rest)))
    IN  from(s, <<>>)

\* String.prototype.trim
trim(s) ==
    LET RECURSIVE left(_)
        left(t) == IF t # <<>> /\ Head(t) = " " THEN left(Tail(t)) ELSE t
        RECURSIVE right(_)
        right(t) == IF t # <<>> /\ t[Len(t)] = " "
                    THEN right(SubSeq(t, 1, Len(t) - 1)) ELSE t
    IN  right(left(s))

\* String.prototype.endsWith
endsWith(s, suf) ==
    /\ Len(suf) <= Len(s)
    /\ SubSeq(s, Len(s) - Len(suf) + 1, Len(s)) = suf

(***************************************************************************)
(* ModelUploader                                                           *)
(***************************************************************************)
NoFile == <<"<null>">>

allowedExtensions ==
    { <<".", "o", "b", "j">>, <<".", "g", "l", "t", "f">>,
      <<".", "g", "l", "b">>, <<".", "f", "b", "x">> }

\* The files a user can pick in the file dialog (names only; the accept
\* attribute of the input is advisory and does not restrict the choice).
FileNames ==
    { <<"a", ".", "o", "b", "j">>,
      <<"a", ".", "O", "B", "J">>,
      <<".", "f", "b", "x">>,
      <<"a", ".", "t", "x", "t">>,
      <<"a", ".", "o", "b", "j", ".", "t", "x", "t">>,
      <<"a", ".", "t", "x", "t", ".", "G", "l", "b">>,
      <<"o", "b", "j">> }

\* What the user can type into the name field (v-model="modelName")
TypedNames == { <<>>, <<" ">>, <<" ", "a", " ">> }

\* What the user can type into the description field
TypedDescriptions == { <<>>, <<"t", "a", "g">> }

\* handleFileChange: '.' + file.name.split('.').pop().toLowerCase()
extension(name) ==
    LET parts == split(name, ".")
    IN  <<".">> \o toLowerCase(parts[Len(parts)])

\* error.value: the message and, for the format message, the formats that
\* allowedExtensions.join(', ') puts into it
ErrUnsupported ==
    [msg |-> "Unsupported file format. Supported formats:", formats |-> allowedExtensions]
Err(msg) == [msg |-> msg, formats |-> {}]
NoError == Err("<null>")

\* selectedFile after handleFileChange rejected the chosen file
SelectedAfterRejectKept(old) == old
SelectedAfterReject(old) == NoFile

\* handleFileChange with a chosen file (event.target.files[0] defined)
handleFileChange(f) ==
    /\ IF extension(f) \notin allowedExtensions
       THEN /\ upError' = ErrUnsupported
            /\ selectedFile' = SelectedAfterReject(selectedFile)
            /\ UNCHANGED modelName
       ELSE /\ selectedFile' = f
            /\ upError' = NoError
            /\ modelName' = IF modelName = <<>> THEN split(f, ".")[1] ELSE modelName
    /\ last' = [op |-> "handleFileChange", file |-> f, hadFile |-> selectedFile # NoFile]
    /\ UploaderOnly
    /\ UNCHANGED <<modelDescription, isUploading, uploadProgress, upInFlight, upPosts,
                   upEmitted>>

\* handleFileChange when the file dialog was cancelled (files[0] undefined)
handleFileChangeCancelled ==
    /\ last' = [op |-> "handleFileChangeCancelled"]
    /\ UNCHANGED uploaderVars
    /\ UploaderOnly

\* v-model on the name and description fields
typeName(n) ==
    /\ modelName' = n
    /\ last' = [op |-> "typeName"]
    /\ UploaderOnly
    /\ UNCHANGED <<selectedFile, modelDescription, upError, isUploading, uploadProgress,
                   upInFlight, upPosts, upEmitted>>

typeDescription(d) ==
    /\ modelDescription' = d
    /\ last' = [op |-> "typeDescription"]
    /\ UploaderOnly
    /\ UNCHANGED <<selectedFile, modelName, upError, isUploading, uploadProgress,
                   upInFlight, upPosts, upEmitted>>

\* The submit button is disabled while isUploading or no file is selected;
\* the name field is "required", so the browser blocks a submit with an
\* empty name (a name of blanks passes it).
SubmitEnabled == ~isUploading /\ selectedFile # NoFile /\ modelName # <<>>

\* Whether uploadModel goes on to send the POST
MayPostUntrimmed(file, name) == file # NoFile /\ name # <<>>
MayPost(file, name) == file # NoFile /\ trim(name) # <<>>

\* uploadModel up to its await: the guards, then the POST is sent
uploadModel ==
    /\ SubmitEnabled
    /\ IF selectedFile = NoFile
       THEN /\ upError' = Err("Please select a file to upload")
            /\ UNCHANGED <<isUploading, uploadProgress, upInFlight, upPosts>>
       ELSE IF ~MayPost(selectedFile, modelName)
       THEN /\ upError' = Err("Please enter a name for the model")
            /\ UNCHANGED <<isUploading, uploadProgress, upInFlight, upPosts>>
       ELSE /\ upError' = NoError
            /\ isUploading' = TRUE
            /\ uploadProgress' = 0
            /\ upInFlight' = upInFlight \cup
                   {[file |-> selectedFile, name |-> modelName,
                     description |-> modelDescription]}
            /\ upPosts' = upPosts + 1
    /\ last' = [op |-> "uploadModel", file |-> selectedFile, sent |-> upPosts' # upPosts]
    /\ UploaderOnly
    /\ UNCHANGED <<selectedFile, modelName, modelDescription, upEmitted>>

\* onUploadProgress while the POST is in flight
onUploadProgress(p) ==
    /\ upInFlight # {}
    /\ uploadProgress' = p
    /\ last' = [op |-> "onUploadProgress"]
    /\ UploaderOnly
    /\ UNCHANGED <<selectedFile, modelName, modelDescription, upError, isUploading,
                   upInFlight, upPosts, upEmitted>>

\* uploadModel after the await, the POST resolved: emit, resetForm, finally
uploadResolved(r) ==
    /\ r \in upInFlight
    /\ upInFlight' = upInFlight \ {r}
    /\ upEmitted' = upEmitted + 1
    /\ modelName' = <<>>
    /\ modelDescription' = <<>>
    /\ selectedFile' = NoFile
    /\ upError' = NoError
    /\ uploadProgress' = 0
    /\ isUploading' = FALSE
    /\ last' = [op |-> "uploadResolved", payload |-> r]
    /\ UploaderOnly
    /\ UNCHANGED <<upPosts>>

\* uploadModel after the await, the POST rejected: catch, finally
uploadRejected(r) ==
    /\ r \in upInFlight
    /\ upInFlight' = upInFlight \ {r}
    /\ upError' = Err("Upload failed. Please try again.")
    /\ isUploading' = FALSE
    /\ last' = [op |-> "uploadRejected"]
    /\ UploaderOnly
    /\ UNCHANGED <<selectedFile, modelName, modelDescription, uploadProgress, upPosts,
                   upEmitted>>

\* cancelUpload (the Cancel button is disabled while uploading)
cancelUpload ==
    /\ ~isUploading
    /\ modelName' = <<>>
    /\ modelDescription' = <<>>
    /\ selectedFile' = NoFile
    /\ upError' = NoError
    /\ uploadProgress' = 0
    /\ last' = [op |-> "cancelUpload"]
    /\ UploaderOnly
    /\ UNCHANGED <<isUploading, upInFlight, upPosts, upEmitted>>

MaxPosts == 1

InitUploader ==
    /\ selectedFile = NoFile
    /\ modelName = <<>>
    /\ modelDescription = <<>>
    /\ upError = NoError
    /\ isUploading = FALSE
    /\ uploadProgress = 0
    /\ upInFlight = {}
    /\ upPosts = 0
    /\ upEmitted = 0

NextUploader ==
    \/ \E f \in FileNames : handleFileChange(f)
    \/ handleFileChangeCancelled
    \/ \E n \in TypedNames : typeName(n)
    \/ \E d \in TypedDescriptions : typeDescription(d)
    \/ (upPosts < MaxPosts /\ uploadModel)
    \/ onUploadProgress(100)
    \/ \E r \in upInFlight : uploadResolved(r)
    \/ \E r \in upInFlight : uploadRejected(r)
    \/ cancelUpload

(***************************************************************************)
(* ModelDrawer: custom coordinates from a JSON file                        *)
(*                                                                         *)
(* A JSON value is a record tagged by t: "null", "num" (n), "str" (s),     *)
(* "arr" (e, the elements) or "obj" (k, the keys as written, and v, their  *)
(* values).  The keys of the numbered-key shape are integers.              *)
(***************************************************************************)
JNull == [t |-> "null"]
JNum(n) == [t |-> "num", n |-> n]
JStr(s) == [t |-> "str", s |-> s]
JArr(e) == [t |-> "arr", e |-> e]
JObj(k, v) == [t |-> "obj", k |-> k, v |-> v]

\* key in v: true of an object with the key, false of an array (no such own
\* key); on null, a number or a string the operator throws a TypeError
HasKey(v, key) == v.t = "obj" /\ \E i \in 1..Len(v.k) : v.k[i] = key

\* v[key] of an object that has the key
Get(v, key) == v.v[CHOOSE i \in 1..Len(v.k) : v.k[i] = key]

\* parseFloat(v): a number is itself, a string is its leading digits, an
\* array is its first element's parseFloat (through its string form), and
\* null and objects give NaN
parseFloat(v) ==
    LET digits == <<"0", "1", "2", "3", "4", "5", "6", "7", "8", "9">>
        isDigit(c) == \E d \in 1..10 : digits[d] = c
        value(c) == (CHOOSE d \in 1..10 : digits[d] = c) - 1
        RECURSIVE leading(_, _)
        leading(s, acc) == IF s # <<>> /\ isDigit(Head(s))
                           THEN leading(Tail(s), acc * 10 + value(Head(s)))
                           ELSE acc
        RECURSIVE pf(_)
        pf(w) == CASE w.t = "num" -> [nan |-> FALSE, n |-> w.n]
                   [] w.t = "str" -> IF w.s # <<>> /\ isDigit(Head(w.s))
                                     THEN [nan |-> FALSE, n |-> leading(w.s, 0)]
                                     ELSE [nan |-> TRUE, n |-> 0]
                   [] w.t = "arr" -> IF w.e = <<>> THEN [nan |-> TRUE, n |-> 0]
                                     ELSE pf(w.e[1])
                   [] OTHER -> [nan |-> TRUE, n |-> 0]
    IN  pf(v)

\* Object.keys(o).sort((a, b) => parseInt(a) - parseInt(b)): integer keys
\* come in ascending order whatever the order they were written in
ObjectKeys(o) ==
    LET RECURSIVE sorted(_)
        sorted(keys) ==
            IF keys = {} THEN <<>>
            ELSE LET m == CHOOSE a \in keys : \A b \in keys : a <= b
                 IN  <<m>> \o sorted(keys \ {m})
    IN  sorted({o.k[i] : i \in 1..Len(o.k)})

\* coordinates.push({x: parseFloat(a), y: parseFloat(b), z: parseFloat(c)})
Coord(a, b, c) == [x |-> parseFloat(a), y |-> parseFloat(b), z |-> parseFloat(c)]

\* The three format branches of parseCoordinatesFromJson: the coordinates
\* pushed, or thrown when a branch throws a TypeError (Object.keys(null),
\* 'x' in null, 'x' in 7)
CollectCoordinates(j) ==
    LET none == [thrown |-> FALSE, coords |-> <<>>]
        throw == [thrown |-> TRUE, coords |-> <<>>]
        isObjectType(v) == v.t \in {"null", "arr", "obj"}    \* typeof v === 'object'
        push(c, rest) == [rest EXCEPT !.coords = <<c>> \o @]
        RECURSIVE format1(_, _)
        format1(keys, i) ==
            IF i > Len(keys) THEN none
            ELSE LET value == Get(j, keys[i])
                 IN  IF value.t = "arr" /\ Len(value.e) >= 3
                     THEN push(Coord(value.e[1], value.e[2], value.e[3]),
                               format1(keys, i + 1))
                     ELSE format1(keys, i + 1)
        RECURSIVE format2(_)
        format2(i) ==
            IF i > Len(j.e) THEN none
            ELSE IF j.e[i].t \notin {"arr", "obj"} THEN throw
            ELSE IF HasKey(j.e[i], "x") /\ HasKey(j.e[i], "y") /\ HasKey(j.e[i], "z")
            THEN push(Coord(Get(j.e[i], "x"), Get(j.e[i], "y"), Get(j.e[i], "z")),
                      format2(i + 1))
            ELSE format2(i + 1)
        RECURSIVE format3(_)
        format3(i) ==
            IF i > Len(j.e) THEN none
            ELSE IF j.e[i].t = "arr" /\ Len(j.e[i].e) >= 3
            THEN push(Coord(j.e[i].e[1], j.e[i].e[2], j.e[i].e[3]), format3(i + 1))
            ELSE format3(i + 1)
    IN  IF isObjectType(j) /\ j.t # "arr"
        THEN IF j.t = "null" THEN throw ELSE format1(ObjectKeys(j), 1)
        ELSE IF j.t = "arr" /\ Len(j.e) > 0 /\ isObjectType(j.e[1]) /\ j.e[1].t = "null"
        THEN throw
        ELSE IF j.t = "arr" /\ Len(j.e) > 0 /\ isObjectType(j.e[1]) /\ HasKey(j.e[1], "x")
        THEN format2(1)
        ELSE IF j.t = "arr" /\ Len(j.e) > 0 /\ j.e[1].t = "arr"
        THEN format3(1)
        ELSE none

\* parseCoordinatesFromJson: the coordinates, or the Error it throws (a
\* TypeError of a format branch or the NaN validation, both rethrown)
parseCoordinatesFromJson(j) ==
    LET c == CollectCoordinates(j)
    IN  IF c.thrown \/ \E i \in 1..Len(c.coords) :
                           c.coords[i].x.nan \/ c.coords[i].y.nan \/ c.coords[i].z.nan
        THEN [thrown |-> TRUE, coords |-> <<>>]
        ELSE c

\* The files the user can choose: name, whether the text is JSON at all
\* (JSON.parse throws otherwise), and the value JSON.parse returns.
JsonFiles ==
    LET P1 == JArr(<<JNum(1), JNum(2), JNum(3)>>)
        P2 == JArr(<<JNum(4), JStr(<<"5">>), JNum(6), JNum(7)>>)
        Short == JArr(<<JNum(1), JNum(2)>>)
        Bad == JArr(<<JNum(1), JStr(<<"a">>), JNum(3)>>)
        Q1 == JObj(<<"x", "y", "z">>, <<JNum(1), JNum(2), JNum(3)>>)
        Q2 == JObj(<<"z", "y", "x">>, <<JNum(6), JNum(5), JStr(<<"4", "0">>)>>)
        NoZ == JObj(<<"x", "y">>, <<JNum(1), JNum(2)>>)
        NoX == JObj(<<"y", "z">>, <<JNum(2), JNum(3)>>)
        QBad == JObj(<<"x", "y", "z">>, <<JNum(1), JNull, JNum(3)>>)
        file(json) == [name |-> <<"c", ".", "J", "S", "O", "N">>, valid |-> TRUE,
                       json |-> json]
    IN  << file(JObj(<<0, 1, 2>>, <<P1, P2, P1>>)),
           file(JObj(<<1, 0>>, <<P1, P2>>)),
           file(JObj(<<>>, <<>>)),
           file(JObj(<<0, 1, 2, 3>>, <<P1, Short, JNum(7), P2>>)),
           file(JObj(<<3, 2, 1, 0>>, <<P1, P2, P2, P1>>)),
           file(JArr(<<Q1, Q2, Q1>>)),
           file(JArr(<<Q1, Q2>>)),
           file(JArr(<<Q1, NoZ, Q2, P1>>)),
           file(JArr(<<Q1, JNum(7)>>)),
           file(JArr(<<NoX, Q1, Q1, Q1>>)),
           file(JArr(<<Q1, QBad, Q2>>)),
           file(JArr(<<P1, P2, P2>>)),
           file(JArr(<<P1, Short>>)),
           file(JArr(<<P1, JNum(7), P2, Q1>>)),
           file(JArr(<<P1, Bad>>)),
           file(JArr(<<JNum(7), P1, P1, P1>>)),
           file(JArr(<<JNull, Q1>>)),
           file(JArr(<<>>)),
           file(JNull),
           file(JNum(42)),
           file(JStr(<<"a">>)),
           [name |-> <<"c", ".", "j", "s", "o", "n">>, valid |-> FALSE, json |-> JNull],
           [name |-> <<"c", ".", "t", "x", "t">>, valid |-> TRUE,
            json |-> JArr(<<P1, P2, P2>>)] >>

\* alert(...) of the drawer: which message, and the count it states
Alert(msg, found) == [msg |-> msg, found |-> found]
AlertCount(n) == Alert("JSON file must contain at least 3 coordinate points, found", n)

MinPoints == 3
MaxPendingReads == 1

\* Whether handleJsonFileUpload rejects the parsed coordinates
TooFewOnlyIfNone(coordinates) == Len(coordinates) < 1
TooFew(coordinates) == Len(coordinates) < MinPoints

\* handleJsonFileUpload up to `await file.text()`
handleJsonFileUpload(f) ==
    /\ IF ~endsWith(toLowerCase(JsonFiles[f].name), <<".", "j", "s", "o", "n">>)
       THEN /\ drAlert' = Alert("Please select a JSON file", 0)
            /\ UNCHANGED pendingReads
       ELSE /\ Len(pendingReads) < MaxPendingReads
            /\ pendingReads' = Append(pendingReads, f)
            /\ UNCHANGED drAlert
    /\ last' = [op |-> "handleJsonFileUpload", file |-> f]
    /\ UNCHANGED <<loadedCoordinates, fileName>>
    /\ DrawerOnly

\* handleJsonFileUpload from the await on, for the k-th pending read
jsonFileRead(k) ==
    LET f == pendingReads[k]
        parsed == parseCoordinatesFromJson(JsonFiles[f].json)
    IN  /\ pendingReads' = SubSeq(pendingReads, 1, k - 1)
                             \o SubSeq(pendingReads, k + 1, Len(pendingReads))
        /\ IF ~JsonFiles[f].valid \/ parsed.thrown
           THEN /\ drAlert' = Alert("Error reading JSON file:", 0)
                /\ UNCHANGED <<loadedCoordinates, fileName>>
           ELSE IF TooFew(parsed.coords)
           THEN /\ drAlert' = AlertCount(Len(parsed.coords))
                /\ UNCHANGED <<loadedCoordinates, fileName>>
           ELSE /\ loadedCoordinates' = parsed.coords
                /\ fileName' = JsonFiles[f].name
                /\ UNCHANGED drAlert
        /\ last' = [op |-> "jsonFileRead", file |-> f,
                    before |-> <<loadedCoordinates, fileName>>]
        /\ DrawerOnly

clearCoordinates ==
    /\ loadedCoordinates' = <<>>
    /\ fileName' = <<>>
    /\ last' = [op |-> "clearCoordinates"]
    /\ UNCHANGED <<pendingReads, drAlert>>
    /\ DrawerOnly

\* api.drawCustomCoords(coordinatesText, ...): the coordinates_text it
\* posts, or the rejection it returns without sending anything.  The input
\* is a string, an array of points, or something else.
apiDrawCustomCoords(coordinatesText) ==
    LET digits == <<"0", "1", "2", "3", "4", "5", "6", "7", "8", "9">>
        RECURSIVE nat(_)
        nat(n) == IF n < 10 THEN <<digits[n + 1]>>
                  ELSE nat(n \div 10) \o <<digits[(n % 10) + 1]>>
        \* `${parseFloat(p.x)}`
        num(c) == IF c.nan THEN <<"N", "a", "N">>
                  ELSE IF c.n < 0 THEN <<"-">> \o nat(-c.n) ELSE nat(c.n)
        line(q) == num(q.x) \o <<" ">> \o num(q.y) \o <<" ">> \o num(q.z)
        RECURSIVE join(_)
        join(ps) == IF ps = <<>> THEN <<>>
                    ELSE IF Len(ps) = 1 THEN line(ps[1])
                    ELSE line(ps[1]) \o <<"\n">> \o join(Tail(ps))
        coordinatesData == IF coordinatesText.t = "str" THEN coordinatesText.s
                           ELSE join(coordinatesText.e)
        nonEmpty(l) == Len(trim(l)) > 0
        lines == SelectSeq(split(coordinatesData, "\n"), nonEmpty)
    IN  IF coordinatesText.t \notin {"str", "arr"}
        THEN [posted |-> FALSE, error |-> "Invalid coordinates format",
              coordinates_text |-> <<>>]
        ELSE IF Len(lines) < 3
        THEN [posted |-> FALSE, error |-> "At least 3 coordinate points are required",
              coordinates_text |-> <<>>]
        ELSE [posted |-> TRUE, error |-> "<none>", coordinates_text |-> coordinatesData]

\* A call of api.drawCustomCoords by any caller.  The function reads no
\* state; it is applied to the inputs while the drawer is idle.
apiCall(coordinatesText) ==
    /\ loadedCoordinates = <<>>
    /\ pendingReads = <<>>
    /\ last' = [op |-> "apiCall", input |-> coordinatesText,
                result |-> apiDrawCustomCoords(coordinatesText)]
    /\ UNCHANGED <<drawerVars, pageVars, viewerVars>>
    /\ OutsideScene

InitDrawer ==
    /\ loadedCoordinates = <<>>
    /\ fileName = <<>>
    /\ pendingReads = <<>>
    /\ drAlert = Alert("<none>", 0)

(***************************************************************************)
(* Scene editor: SceneView with its ModelSelector and ModelDrawer, the     *)
(* CreateModelView page, and the SimpleModelViewer that SceneView mounts   *)
(* while the scene list is not empty.                                      *)
(*                                                                         *)
(* JavaScript values are the tagged records of the JSON section, with      *)
(* "undefined", "nan" and "id" (a model id) added.  Numbers of the scene   *)
(* are held in tenths (JNum(5) is 0.5), which is exact for the step sizes  *)
(* 0.1 .. 2 and the scale step 0.1; rotations are tenths of a degree.      *)
(***************************************************************************)
Undefined == [t |-> "undefined"]
Id(k) == [t |-> "id", id |-> k]

\* new THREE.Vector3-like literal { x, y, z } of numbers
Vec(x, y, z) == JObj(<<"x", "y", "z">>, <<JNum(x), JNum(y), JNum(z)>>)

\* o.key: undefined when the value has no such property (an array has no x)
Prop(o, key) == IF HasKey(o, key) THEN Get(o, key) ELSE Undefined

\* a || b
OrElse(a, b) ==
    IF \/ a.t \in {"undefined", "null", "nan"}
       \/ (a.t = "num" /\ a.n = 0)
       \/ (a.t = "str" /\ a.s = <<>>)
    THEN b
    ELSE a

\* String(v) as the + operator applies it to a number or a string
toString(v) ==
    LET digits == <<"0", "1", "2", "3", "4", "5", "6", "7", "8", "9">>
        RECURSIVE nat(_)
        nat(n) == IF n < 10 THEN <<digits[n + 1]>>
                  ELSE nat(n \div 10) \o <<digits[(n % 10) + 1]>>
        abs == IF v.n < 0 THEN -v.n ELSE v.n
    IN  CASE v.t = "str" -> v.s
          [] v.t = "num" -> (IF v.n < 0 THEN <<"-">> ELSE <<>>)
                            \o nat(abs \div 10)
                            \o (IF abs % 10 = 0 THEN <<>>
                                ELSE <<".", digits[(abs % 10) + 1]>>)
          [] OTHER -> <<"N", "a", "N">>

\* Number(v) as unary minus and * apply it: a number is itself, a string of
\* digits with at most one decimal is its value, anything else here is NaN
ToNumber(v) ==
    LET digits == <<"0", "1", "2", "3", "4", "5", "6", "7", "8", "9">>
        isDigit(c) == \E d \in 1..10 : digits[d] = c
        value(c) == (CHOOSE d \in 1..10 : digits[d] = c) - 1
        dots == {i \in 1..Len(v.s) : v.s[i] = "."}
        dot == IF dots = {} THEN Len(v.s) + 1 ELSE CHOOSE i \in dots : \A j \in dots : i <= j
        whole == SubSeq(v.s, 1, dot - 1)
        frac == SubSeq(v.s, dot + 1, Len(v.s))
        RECURSIVE int(_, _)
        int(s, acc) == IF s = <<>> THEN acc ELSE int(Tail(s), acc * 10 + value(Head(s)))
        wellFormed == /\ whole # <<>>
                      /\ \A i \in 1..Len(whole) : isDigit(whole[i])
                      /\ Len(frac) <= 1
                      /\ \A i \in 1..Len(frac) : isDigit(frac[i])
    IN  CASE v.t = "num" -> v
          [] v.t = "str" /\ wellFormed ->
                 JNum(int(whole, 0) * 10 + (IF frac = <<>> THEN 0 ELSE value(frac[1])))
          [] OTHER -> [t |-> "nan"]

\* a + b: addition of two numbers, concatenation as soon as one is a string
Plus(a, b) ==
    IF a.t = "num" /\ b.t = "num" THEN JNum(a.n + b.n)
    ELSE IF a.t = "str" \/ b.t = "str" THEN JStr(toString(a) \o toString(b))
    ELSE [t |-> "nan"]

\* -v
Negate(v) == IF ToNumber(v).t = "num" THEN JNum(-ToNumber(v).n) ELSE [t |-> "nan"]

(***************************************************************************)
(* ModelSelector and SceneView: the scene list                             *)
(***************************************************************************)
\* The models GET /api/models lists before anything is drawn
CatalogIds == {1}

\* isModelSelected
isModelSelected(models, modelId) == \E i \in 1..Len(models) : models[i].id = modelId

\* addModel: the emitted array, the model with its defaults appended (the
\* random colour is one value here)
addModelInFront(models, id) ==
    <<[id |-> id, position |-> Vec(0, 0, 0), rotation |-> Vec(0, 0, 0),
       scale |-> JNum(10), color |-> "random"]>> \o models

addModel(models, id) ==
    Append(models, [id |-> id, position |-> Vec(0, 0, 0), rotation |-> Vec(0, 0, 0),
                    scale |-> JNum(10), color |-> "random"])

\* addModel of the ModelSelector that places the new model by itself: the
\* emitted array, the new model at its grid cell (spacing 3, position as an
\* object, in tenths)
addModelAtGrid(models, id) ==
    LET modelCount == Len(models)
        spacing == 3
        gridSize == CHOOSE g \in 1..(modelCount + 1) :
                        g * g >= modelCount + 1 /\ (g - 1) * (g - 1) < modelCount + 1
        row == modelCount \div gridSize
        col == modelCount % gridSize
        gridOffset == 5 * (gridSize - 1) * spacing
    IN  Append(models,
               [id |-> id,
                position |-> Vec(10 * col * spacing - gridOffset, 0,
                                 10 * row * spacing - gridOffset),
                rotation |-> Vec(0, 0, 0), scale |-> JNum(10), color |-> "random"])

\* removeModel: the emitted array, filtered
removeModel(models, modelId) == SelectSeq(models, LAMBDA m : m.id # modelId)

\* SceneView.handleModelCreated: the list after the push, the new model at
\* its grid cell with position, rotation and scale as arrays
handleModelCreated(models, id) ==
    LET modelCount == Len(models)
        spacing == 4
        gridSize == CHOOSE g \in 1..(modelCount + 1) :
                        g * g >= modelCount + 1 /\ (g - 1) * (g - 1) < modelCount + 1
        row == modelCount \div gridSize
        col == modelCount % gridSize
        gridOffset == ((gridSize - 1) * spacing) \div 2
    IN  Append(models,
               [id |-> id,
                position |-> JArr(<<JNum(10 * (col * spacing - gridOffset)), JNum(0),
                                    JNum(10 * (row * spacing - gridOffset))>>),
                rotation |-> JArr(<<JNum(0), JNum(0), JNum(0)>>),
                scale |-> JArr(<<JNum(15), JNum(15), JNum(15)>>)])

\* SceneView.handleModelPositionChanged / RotationChanged / ScaleChanged, which
\* differ in the field only: find the first entry with m.id === modelId and
\* assign the second argument to its field
handleModelChanged(models, field, modelId, newValue) ==
    LET found == {i \in 1..Len(models) : Id(models[i].id) = modelId}
    IN  IF found = {} THEN models
        ELSE LET first == CHOOSE i \in found : \A j \in found : i <= j
             IN  [models EXCEPT ![first] = [@ EXCEPT ![field] = newValue]]

\* props.selectedModels.map(model => model.id === modelId ? {...} : model),
\* the array updateModelColor, updateModelPosition and updateModelScale
\* emit; changed[i] is the object the callback builds of models[i]
UpdatedWhateverId(models, modelId, changed) ==
    [i \in 1..Len(models) |-> changed[i]]

Updated(models, modelId, changed) ==
    [i \in 1..Len(models) |-> IF models[i].id = modelId THEN changed[i] ELSE models[i]]

(***************************************************************************)
(* SimpleModelViewer: loading the models of the scene list                 *)
(*                                                                         *)
(* loadedModels maps a model id to its object: position (x, y, z as the    *)
(* JavaScript values the fields hold), rotation and scale.  A run of       *)
(* manageModels that awaits a model file is a record of runs: the array    *)
(* it iterates, the index of the entry being loaded, and whether that      *)
(* array is still the one SceneView holds (a push is seen by the loop, a   *)
(* replacement by ModelSelector is not).  untracked holds the ids of which *)
(* the THREE scene has an object that loadedModels no longer holds.        *)
(***************************************************************************)
\* selectedObject = null
NoObject == 0

\* updateModelProperties: position, rotation and scale from the scene entry
\* (loadModel applies the same three assignments to the object it loaded)
updateModelProperties(existingModel, modelData) ==
    LET coord(v, key) == OrElse(Prop(v, key), JNum(0))
    IN  [position |-> [x |-> coord(modelData.position, "x"),
                       y |-> coord(modelData.position, "y"),
                       z |-> coord(modelData.position, "z")],
         rotation |-> [x |-> ToNumber(coord(modelData.rotation, "x")).n,
                       y |-> ToNumber(coord(modelData.rotation, "y")).n,
                       z |-> ToNumber(coord(modelData.rotation, "z")).n],
         scale |-> IF modelData.scale.t = "num"
                   THEN (IF modelData.scale.n = 0 THEN existingModel.scale
                         ELSE modelData.scale)
                   ELSE OrElse(Prop(modelData.scale, "x"), JNum(10))]

\* loadModel after its await resolved: the object that is added to the scene
loadModel(modelData) ==
    updateModelProperties([position |-> [x |-> JNum(0), y |-> JNum(0), z |-> JNum(0)],
                           rotation |-> [x |-> 0, y |-> 0, z |-> 0],
                           scale |-> JNum(10)],
                          modelData)

\* The for loop of manageModels from entry i on: entries that are loaded are
\* updated in place; the loop stops at the first entry that is not, where
\* loadModel awaits the file (at = its index), or at the end of the array
ManageFrom(loaded, list, i) ==
    LET RECURSIVE loop(_, _)
        loop(l, k) ==
            IF k > Len(list) THEN [loaded |-> l, at |-> k]
            ELSE IF list[k].id \in DOMAIN l
            THEN loop([l EXCEPT ![list[k].id] = updateModelProperties(@, list[k])], k + 1)
            ELSE [loaded |-> l, at |-> k]
    IN  loop(loaded, i)

\* manageModels up to its first await: the models that left the list are
\* removed, then the loop starts
manageModels(loaded, list) ==
    LET newModelIds == {list[i].id : i \in 1..Len(list)}
    IN  ManageFrom([id \in DOMAIN loaded \cap newModelIds |-> loaded[id]], list, 1)

\* The run a manageModels call leaves behind, if it awaits a load
Awaiting(m, list) ==
    IF m.at <= Len(list) THEN <<[list |-> list, at |-> m.at, live |-> TRUE]>> ELSE <<>>

\* The viewer's state after setup(): refs and closure variables at their
\* initial values, nothing loaded
ViewerSetup ==
    /\ editMode' = FALSE
    /\ selectedObject' = NoObject
    /\ isDragging' = FALSE
    /\ moveStep' = JNum(10)
    /\ edits' = 0

\* Everything SceneView's selectedModels drives.  A list that becomes empty
\* removes the viewer (v-if; onBeforeUnmount runs cleanupThreeJS), a list
\* that becomes non-empty mounts a new one (setup, then the zero-delay
\* timer of onMounted: initScene creates the enabled controls, loadModels
\* starts manageModels; the timer is taken to run before any further
\* event), and any other change runs the deep watch on props.models.
SetSelectedModels(newModels, pushed) ==
    /\ selectedModels' = newModels
    /\ IF newModels = <<>>
       THEN /\ mounted' = FALSE
            /\ controls' = "null"
            /\ loadedModels' = <<>>
            /\ untracked' = {}
            /\ runs' = <<>>
            /\ ViewerSetup
       ELSE IF ~mounted
       THEN LET m == manageModels(<<>>, newModels)
            IN  /\ mounted' = TRUE
                /\ controls' = "enabled"
                /\ loadedModels' = m.loaded
                /\ untracked' = {}
                /\ runs' = Awaiting(m, newModels)
                /\ ViewerSetup
       ELSE LET m == manageModels(loadedModels, newModels)
                seen == [r \in 1..Len(runs) |->
                            IF pushed /\ runs[r].live
                            THEN [runs[r] EXCEPT !.list = newModels]
                            ELSE [runs[r] EXCEPT !.live = pushed /\ @]]
            IN  /\ loadedModels' = m.loaded
                /\ runs' = seen \o Awaiting(m, newModels)
                /\ UNCHANGED <<mounted, controls, editMode, selectedObject, isDragging,
                               moveStep, edits, untracked>>

\* emit(event, payload) of the viewer: SceneView's handler is called with
\* the payload as its first argument and no second one; a handler that
\* changed an entry would trigger the deep watch on props.models
emit(field, payload, loaded) ==
    LET models == handleModelChanged(selectedModels, field, payload, Undefined)
        m == manageModels(loaded, models)
    IN  /\ selectedModels' = models
        /\ IF models = selectedModels
           THEN /\ loadedModels' = loaded
                /\ UNCHANGED runs
           ELSE /\ loadedModels' = m.loaded
                /\ runs' = [r \in 1..Len(runs) |->
                               IF runs[r].live THEN [runs[r] EXCEPT !.list = models]
                               ELSE runs[r]] \o Awaiting(m, models)

(***************************************************************************)
(* The pages and the drawing requests of ModelDrawer                       *)
(***************************************************************************)
MaxDrawn == 1
\* The drawing requests that may be in flight at once (the quick-draw buttons
\* stay enabled while a request is in flight)
MaxDrawRequests == 2
MaxRuns == 2
MaxEdits == 2

\* drawingResult = null
NoResult == [state |-> "null", model |-> 0]

\* The ids the server holds: the catalogue and the models drawn so far
ServerIds == CatalogIds \cup {1 + k : k \in 1..drawn}

\* router.push(r): the page that is left is unmounted with its components,
\* the page that opens is set up from scratch (SceneView starts with an
\* empty selectedModels, its ModelSelector fetches the list of the server)
Navigate(r) ==
    /\ route' = r
    /\ createdModels' = <<>>
    /\ availableModels' = IF r = "/scene" THEN ServerIds ELSE {}
    /\ isDrawing' = FALSE
    /\ drawingResult' = NoResult
    /\ drawRequests' = 0
    /\ SetSelectedModels(<<>>, FALSE)
    /\ UNCHANGED drawn

\* The links and buttons that change the page
navigate(r) ==
    /\ r # route
    /\ Navigate(r)
    /\ last' = [op |-> "navigate"]
    /\ SceneOnly

\* CreateModelView.addToScene(model), the Add to Scene button of a card
addToScene(model) ==
    /\ route = "/create"
    /\ \E i \in 1..Len(createdModels) : createdModels[i] = model
    /\ Navigate("/scene")
    /\ last' = [op |-> "addToScene", model |-> model]
    /\ SceneOnly

\* ModelSelector.toggleModel, a click on the card of a listed model
toggleModel(id) ==
    /\ route = "/scene"
    /\ id \in availableModels
    /\ Len(runs) < MaxRuns
    /\ SetSelectedModels(IF isModelSelected(selectedModels, id)
                         THEN removeModel(selectedModels, id)
                         ELSE addModel(selectedModels, id), FALSE)
    /\ last' = [op |-> "toggleModel", id |-> id, before |-> selectedModels]
    /\ SceneOnly
    /\ UNCHANGED <<route, createdModels, availableModels, isDrawing, drawingResult,
                   drawRequests, drawn>>

\* ModelSelector.updateModelColor, the colour input of a listed entry
updateModelColor(modelId, newColor) ==
    LET withColor(model) == [f \in DOMAIN model \cup {"color"} |->
                                IF f = "color" THEN newColor ELSE model[f]]
    IN  /\ route = "/scene"
        /\ isModelSelected(selectedModels, modelId)
        /\ Len(runs) < MaxRuns
        /\ SetSelectedModels(Updated(selectedModels, modelId,
                                    [i \in 1..Len(selectedModels) |->
                                        withColor(selectedModels[i])]),
                             FALSE)
        /\ last' = [op |-> "updateModelColor", id |-> modelId, value |-> newColor,
                    before |-> selectedModels]
        /\ SceneOnly
        /\ UNCHANGED <<route, createdModels, availableModels, isDrawing, drawingResult,
                       drawRequests, drawn>>

\* ModelSelector.updateModelPosition, a position input of a listed entry:
\* the spread of the entry's position (of an array: its elements under the
\* keys 0, 1, 2) with position[axis] assigned
updateModelPosition(modelId, axis, value) ==
    LET indexes == <<"0", "1", "2">>
        spread(q) == IF q.t = "arr" THEN JObj(SubSeq(indexes, 1, Len(q.e)), q.e) ELSE q
        assign(o) == IF HasKey(o, axis)
                     THEN JObj(o.k, [i \in 1..Len(o.k) |-> IF o.k[i] = axis THEN value
                                                           ELSE o.v[i]])
                     ELSE JObj(Append(o.k, axis), Append(o.v, value))
        withPosition(model) == [model EXCEPT !.position = assign(spread(@))]
    IN  /\ route = "/scene"
        /\ isModelSelected(selectedModels, modelId)
        /\ Len(runs) < MaxRuns
        /\ SetSelectedModels(Updated(selectedModels, modelId,
                                    [i \in 1..Len(selectedModels) |->
                                        withPosition(selectedModels[i])]),
                             FALSE)
        /\ last' = [op |-> "updateModelPosition", id |-> modelId, axis |-> axis,
                    value |-> value, before |-> selectedModels]
        /\ SceneOnly
        /\ UNCHANGED <<route, createdModels, availableModels, isDrawing, drawingResult,
                       drawRequests, drawn>>

\* ModelSelector.updateModelScale, the scale input of a listed entry
updateModelScale(modelId, value) ==
    LET withScale(model) == [model EXCEPT !.scale = value]
    IN  /\ route = "/scene"
        /\ isModelSelected(selectedModels, modelId)
        /\ Len(runs) < MaxRuns
        /\ SetSelectedModels(Updated(selectedModels, modelId,
                                    [i \in 1..Len(selectedModels) |->
                                        withScale(selectedModels[i])]),
                             FALSE)
        /\ last' = [op |-> "updateModelScale", id |-> modelId, value |-> value,
                    before |-> selectedModels]
        /\ SceneOnly
        /\ UNCHANGED <<route, createdModels, availableModels, isDrawing, drawingResult,
                       drawRequests, drawn>>

\* The model-created listener of the page the drawer is on:
\* SceneView.handleModelCreated or CreateModelView.handleModelCreated
\* (unshift, then an alert)
ModelCreated(id) ==
    IF route = "/scene"
    THEN /\ SetSelectedModels(handleModelCreated(selectedModels, id), TRUE)
         /\ UNCHANGED createdModels
    ELSE /\ createdModels' = <<id>> \o createdModels
         /\ UNCHANGED <<selectedModels, viewerVars>>

\* drawPrimitive up to its await (a quick-draw button)
drawPrimitive ==
    /\ route \in {"/scene", "/create"}
    /\ drawn < MaxDrawn
    /\ drawRequests < MaxDrawRequests
    /\ isDrawing' = TRUE
    /\ drawingResult' = NoResult
    /\ drawRequests' = drawRequests + 1
    /\ last' = [op |-> "drawPrimitive"]
    /\ SceneOnly
    /\ UNCHANGED <<route, createdModels, availableModels, selectedModels, drawn, viewerVars>>

\* drawPrimitive after the await, the request resolved with the new model
drawResolved ==
    /\ drawRequests > 0
    /\ drawn < MaxDrawn
    /\ Len(runs) < MaxRuns
    /\ drawRequests' = drawRequests - 1
    /\ drawn' = drawn + 1
    /\ drawingResult' = [state |-> "success", model |-> 1 + drawn']
    /\ ModelCreated(1 + drawn')
    /\ isDrawing' = FALSE
    /\ last' = [op |-> "drawResolved", id |-> 1 + drawn', before |-> selectedModels]
    /\ SceneOnly
    /\ UNCHANGED <<route, availableModels>>

\* drawPrimitive after the await, the request rejected
drawRejected ==
    /\ drawRequests > 0
    /\ drawRequests' = drawRequests - 1
    /\ drawingResult' = [state |-> "error", model |-> 0]
    /\ isDrawing' = FALSE
    /\ last' = [op |-> "drawRejected"]
    /\ SceneOnly
    /\ UNCHANGED <<route, createdModels, availableModels, selectedModels, drawn, viewerVars>>

\* ModelDrawer.drawCustomCoords up to its await (the Create button, disabled
\* while isDrawing).  A rejection that api.drawCustomCoords returns without
\* a request is caught at once.  The request it posts is answered like the
\* one of drawPrimitive (result, model-created, isDrawing reset).
drawCustomCoords ==
    LET loaded == Len(loadedCoordinates)
        call == apiDrawCustomCoords([t |-> "arr", e |-> loadedCoordinates])
        posts == loaded >= 3 /\ call.posted
    IN  /\ route \in {"/scene", "/create"}
        /\ ~isDrawing
        /\ IF loaded < 3
           THEN /\ drAlert' = Alert("Custom mesh requires at least 3 points, currently loaded:",
                                    loaded)
                /\ UNCHANGED <<isDrawing, drawingResult, drawRequests>>
           ELSE IF call.posted
           THEN /\ drawn < MaxDrawn
                /\ drawRequests < MaxDrawRequests
                /\ isDrawing' = TRUE
                /\ drawingResult' = NoResult
                /\ drawRequests' = drawRequests + 1
                /\ UNCHANGED drAlert
           ELSE /\ isDrawing' = FALSE
                /\ drawingResult' = [state |-> "error", model |-> 0]
                /\ UNCHANGED <<drawRequests, drAlert>>
        /\ last' = [op |-> "drawCustomCoords", loaded |-> loaded, posted |-> posts,
                    coordinates_text |-> IF posts THEN call.coordinates_text ELSE <<>>]
        /\ UNCHANGED <<loadedCoordinates, fileName, pendingReads>>
        /\ UNCHANGED <<route, createdModels, availableModels, selectedModels, drawn,
                       viewerVars>>
        /\ UNCHANGED <<uploaderVars, homeVars, analyzerVars, assetVars, fetchVars>>

\* ModelDrawer.addModelToScene, the Add to Scene button of a success result
addModelToScene ==
    /\ drawingResult.state = "success"
    /\ Len(runs) < MaxRuns
    /\ ModelCreated(drawingResult.model)
    /\ drawingResult' = NoResult
    /\ last' = [op |-> "addModelToScene", id |-> drawingResult.model,
                before |-> selectedModels]
    /\ SceneOnly
    /\ UNCHANGED <<route, availableModels, isDrawing, drawRequests, drawn>>

\* loadModel after its await, for the run r of manageModels: the file loaded
\* (the object is added to the scene and stored in loadedModels, whatever is
\* stored there by now) or failed (console.error, return null); then the
\* loop of manageModels goes on
loadSettled(r, ok) ==
    /\ r \in 1..Len(runs)
    /\ LET run == runs[r]
           modelData == run.list[run.at]
           id == modelData.id
           loaded == IF ok
                     THEN [k \in DOMAIN loadedModels \cup {id} |->
                              IF k = id THEN loadModel(modelData) ELSE loadedModels[k]]
                     ELSE loadedModels
           m == ManageFrom(loaded, run.list, run.at + 1)
       IN  /\ loadedModels' = m.loaded
           /\ untracked' = IF ok /\ id \in DOMAIN loadedModels
                           THEN untracked \cup {id}
                           ELSE untracked
           /\ runs' = IF m.at <= Len(run.list)
                      THEN [runs EXCEPT ![r].at = m.at]
                      ELSE SubSeq(runs, 1, r - 1) \o SubSeq(runs, r + 1, Len(runs))
           /\ last' = [op |-> "loadSettled", id |-> id, ok |-> ok, shown |-> "<none>"]
    /\ SceneOnly
    /\ UNCHANGED <<mounted, controls, editMode, selectedObject, isDragging, moveStep, edits>>
    /\ UNCHANGED pageVars

(***************************************************************************)
(* SimpleModelViewer: edit mode                                            *)
(***************************************************************************)
\* The options of the step-size select; v-model stores the option's value
\* attribute, which is a string
StepOptions == {<<"0", ".", "1">>, <<"0", ".", "5">>, <<"1">>, <<"2">>}
Axes == {"x", "y", "z"}

\* selectObject: the new value of selectedObject
selectObject(object) == object

\* The edit sidebar shows the movement controls (v-if editMode, v-if
\* selectedObject)
PanelShown == mounted /\ editMode /\ selectedObject # NoObject

\* What a viewer handler leaves alone outside the viewer
ViewerOnly == SceneOnly /\ UNCHANGED <<route, createdModels, availableModels, isDrawing,
                                       drawingResult, drawRequests, drawn>>

\* The material the meshes of a loaded model carry (shown: their "own", the
\* "highlight" material or a "textured" one made by updateObjectMaterial) and
\* the entry originalMaterials keeps for them (kept, "none" before the first
\* highlight).  An object starts with its own material and no entry.
AllIds == 1..(1 + MaxDrawn)
OwnMaterial == [shown |-> "own", kept |-> "none"]

\* restoreObjectMaterial(object)
restoreObjectMaterial(mats, object) ==
    IF object # NoObject /\ mats[object].kept # "none"
    THEN [mats EXCEPT ![object].shown = mats[object].kept]
    ELSE mats

\* highlightObject(object)
highlightObject(mats, object) ==
    IF object # NoObject
    THEN [mats EXCEPT ![object] = [shown |-> "highlight",
                                   kept |-> IF @.kept = "none" THEN @.shown ELSE @.kept]]
    ELSE mats

\* updateObjectMaterial(textures) for the selected object; textured says
\* that textures is not empty
updateObjectMaterial(mats, object, textured) ==
    IF object # NoObject /\ (mats[object].kept = "none" \/ textured)
    THEN [mats EXCEPT ![object] = [shown |-> "textured", kept |-> "textured"]]
    ELSE mats

\* What a handler that selects leaves alone outside the viewer
SelectOnly == OutsideScene /\ UNCHANGED <<route, createdModels, availableModels, isDrawing,
                                         drawingResult, drawRequests, drawn>>

\* toggleEditMode without the selectObject(null) of leaving edit mode
toggleEditModeKeepsSelection ==
    /\ mounted
    /\ editMode' = ~editMode
    /\ IF ~editMode'
       THEN /\ isDragging' = FALSE
            /\ UNCHANGED selectedObject
       ELSE UNCHANGED <<selectedObject, isDragging>>
    /\ controls' = IF controls # "null"
                   THEN (IF ~editMode' THEN "enabled" ELSE "disabled")
                   ELSE controls
    /\ last' = [op |-> "toggleEditMode", selected |-> selectedObject,
                dragging |-> isDragging]
    /\ ViewerOnly
    /\ UNCHANGED <<selectedModels, mounted, moveStep, loadedModels, untracked, runs, edits>>

\* toggleEditMode, the Edit Mode / Exit Edit button
toggleEditMode ==
    /\ mounted
    /\ editMode' = ~editMode
    /\ IF ~editMode'
       THEN /\ selectedObject' = selectObject(NoObject)
            /\ materials' = restoreObjectMaterial(materials, selectedObject)
            /\ isDragging' = FALSE
       ELSE UNCHANGED <<selectedObject, materials, isDragging>>
    /\ controls' = IF controls # "null"
                   THEN (IF ~editMode' THEN "enabled" ELSE "disabled")
                   ELSE controls
    /\ last' = [op |-> "toggleEditMode", selected |-> selectedObject,
                dragging |-> isDragging]
    /\ SelectOnly
    /\ UNCHANGED <<selectedModels, mounted, moveStep, loadedModels, untracked, runs, edits>>

\* onMouseClick: the ray hits the loaded model target, or nothing (NoObject)
onMouseClick(target) ==
    /\ mounted
    /\ target \in DOMAIN loadedModels \cup {NoObject}
    /\ IF ~editMode \/ isDragging
       THEN UNCHANGED <<selectedObject, materials>>
       ELSE /\ selectedObject' = selectObject(target)
            /\ materials' = highlightObject(restoreObjectMaterial(materials, selectedObject),
                                            target)
    /\ last' = [op |-> "onMouseClick", target |-> target]
    /\ SelectOnly
    /\ UNCHANGED <<selectedModels, mounted, controls, editMode, isDragging, moveStep,
                   loadedModels, untracked, runs, edits>>

\* onMouseDown: hit says whether the ray hits the selected object
onMouseDown(hit) ==
    /\ mounted
    /\ hit => selectedObject \in DOMAIN loadedModels
    /\ IF editMode /\ selectedObject # NoObject /\ hit
       THEN /\ isDragging' = TRUE
            /\ controls' = IF controls # "null" THEN "disabled" ELSE controls
       ELSE UNCHANGED <<isDragging, controls>>
    /\ last' = [op |-> "onMouseDown", hit |-> hit]
    /\ ViewerOnly
    /\ UNCHANGED <<selectedModels, mounted, editMode, selectedObject, moveStep,
                   loadedModels, untracked, runs, edits>>

onMouseUp ==
    /\ mounted
    /\ IF isDragging
       THEN /\ isDragging' = FALSE
            /\ controls' = IF controls # "null" THEN "enabled" ELSE controls
       ELSE UNCHANGED <<isDragging, controls>>
    /\ last' = [op |-> "onMouseUp"]
    /\ ViewerOnly
    /\ UNCHANGED <<selectedModels, mounted, editMode, selectedObject, moveStep,
                   loadedModels, untracked, runs, edits>>

\* The payload { modelId, <field>: value } of the viewer's change events
Payload(field, value) ==
    JObj(<<"modelId", field>>, <<Id(selectedObject), value>>)

\* What an edit of the selected object leaves alone
EditFrame ==
    /\ edits' = edits + 1
    /\ ViewerOnly
    /\ UNCHANGED <<mounted, controls, editMode, selectedObject, isDragging, moveStep,
                   untracked>>

\* onMouseWheel: up is deltaY <= 0
onMouseWheel(up) ==
    /\ mounted /\ edits < MaxEdits
    /\ selectedObject # NoObject => selectedObject \in DOMAIN loadedModels
    /\ IF ~editMode \/ selectedObject = NoObject
       THEN /\ UNCHANGED <<selectedModels, loadedModels, runs>>
            /\ last' = [op |-> "onMouseWheel", emitted |-> <<>>]
       ELSE LET currentScale == loadedModels[selectedObject].scale
                sum == Plus(currentScale, JNum(IF up THEN 1 ELSE -1))
                newScale == IF sum.n < 1 THEN JNum(1) ELSE sum
            IN  /\ emit("scale", Payload("scale", newScale),
                        [loadedModels EXCEPT ![selectedObject].scale = newScale])
                /\ last' = [op |-> "onMouseWheel",
                            emitted |-> <<"scale", selectedObject, newScale>>]
    /\ EditFrame

\* scaleObject(0.1) and scaleObject(-0.1), the + and - buttons
scaleObject(up) ==
    /\ PanelShown /\ edits < MaxEdits
    /\ selectedObject \in DOMAIN loadedModels
    /\ LET sum == Plus(OrElse(loadedModels[selectedObject].scale, JNum(10)),
                       JNum(IF up THEN 1 ELSE -1))
           newScale == IF sum.n < 1 THEN JNum(1) ELSE sum
       IN  /\ emit("scale", Payload("scale", newScale),
                   [loadedModels EXCEPT ![selectedObject].scale = newScale])
           /\ last' = [op |-> "scaleObject",
                       emitted |-> <<"scale", selectedObject, newScale>>]
    /\ EditFrame

\* v-model of the step-size select
chooseMoveStep(s) ==
    /\ PanelShown
    /\ moveStep' = JStr(s)
    /\ last' = [op |-> "chooseMoveStep"]
    /\ ViewerOnly
    /\ UNCHANGED <<selectedModels, mounted, controls, editMode, selectedObject, isDragging,
                   loadedModels, untracked, runs, edits>>

\* moveObject(axis, moveStep) and moveObject(axis, -moveStep), the direction
\* buttons of the position section
moveObject(axis, positive) ==
    /\ PanelShown /\ edits < MaxEdits
    /\ selectedObject \in DOMAIN loadedModels
    /\ LET delta == IF positive THEN moveStep ELSE Negate(moveStep)
           loaded == [loadedModels EXCEPT ![selectedObject].position[axis] = Plus(@, delta)]
           p == loaded[selectedObject].position
           newPosition == JObj(<<"x", "y", "z">>, <<p.x, p.y, p.z>>)
       IN  /\ emit("position", Payload("position", newPosition), loaded)
           /\ last' = [op |-> "moveObject", axis |-> axis, positive |-> positive,
                       step |-> moveStep,
                       before |-> loadedModels[selectedObject].position,
                       undoes |-> IF /\ last.op = "moveObject" /\ last.axis = axis
                                     /\ last.positive /\ ~positive /\ last.step = moveStep
                                  THEN <<last.before[axis]>> ELSE <<>>,
                       emitted |-> <<"position", selectedObject, newPosition>>]
    /\ EditFrame

\* rotateObject(axis, moveStep * 15) and rotateObject(axis, -moveStep * 15)
rotateObject(axis, positive) ==
    /\ PanelShown /\ edits < MaxEdits
    /\ selectedObject \in DOMAIN loadedModels
    /\ LET delta == (IF positive THEN ToNumber(moveStep).n ELSE Negate(moveStep).n) * 15
           loaded == [loadedModels EXCEPT ![selectedObject].rotation[axis] = @ + delta]
           r == loaded[selectedObject].rotation
           newRotation == Vec(r.x, r.y, r.z)
       IN  /\ emit("rotation", Payload("rotation", newRotation), loaded)
           /\ last' = [op |-> "rotateObject",
                       emitted |-> <<"rotation", selectedObject, newRotation>>]
    /\ EditFrame

\* What the reset functions leave of the selected object: what is
\* "position" (Reset Position), "rotation" (Reset Rotation) or "transform"
\* (Reset All: position.set(0, 0, 0), rotation.set(0, 0, 0), scale.set(1, 1, 1))
ResetEverything(object, what) ==
    [position |-> [x |-> JNum(0), y |-> JNum(0), z |-> JNum(0)],
     rotation |-> [x |-> 0, y |-> 0, z |-> 0],
     scale |-> JNum(10)]
ResetTo(object, what) ==
    [position |-> IF what \in {"position", "transform"}
                  THEN [x |-> JNum(0), y |-> JNum(0), z |-> JNum(0)]
                  ELSE object.position,
     rotation |-> IF what \in {"rotation", "transform"}
                  THEN [x |-> 0, y |-> 0, z |-> 0]
                  ELSE object.rotation,
     scale |-> IF what = "transform" THEN JNum(10) ELSE object.scale]

\* resetObjectPosition, resetObjectRotation and resetObjectTransform (which
\* calls the two and resetObjectScale).  The buttons are rendered with an
\* object selected; a call with none selected is the early return of each
\* function.  The events are emitted in order, each handled by SceneView
\* before the next.
resetObject(what) ==
    /\ mounted /\ editMode /\ edits < MaxEdits
    /\ selectedObject \in DOMAIN loadedModels \cup {NoObject}
    /\ LET events == IF selectedObject = NoObject THEN <<>>
                     ELSE (IF what \in {"position", "transform"}
                           THEN <<<<"position", selectedObject, Vec(0, 0, 0)>>>> ELSE <<>>)
                          \o (IF what \in {"rotation", "transform"}
                              THEN <<<<"rotation", selectedObject, Vec(0, 0, 0)>>>> ELSE <<>>)
                          \o (IF what = "transform"
                              THEN <<<<"scale", selectedObject, JNum(10)>>>> ELSE <<>>)
           RECURSIVE handled(_, _)
           handled(list, i) ==
               IF i > Len(events) THEN list
               ELSE handled(handleModelChanged(list, events[i][1],
                                               Payload(events[i][1], events[i][3]),
                                               Undefined),
                            i + 1)
           models == handled(selectedModels, 1)
           loaded == IF selectedObject = NoObject THEN loadedModels
                     ELSE [loadedModels EXCEPT
                              ![selectedObject] = ResetTo(@, what)]
           m == manageModels(loaded, models)
       IN  /\ selectedModels' = models
           /\ IF models = selectedModels
              THEN /\ loadedModels' = loaded
                   /\ UNCHANGED runs
              ELSE /\ loadedModels' = m.loaded
                   /\ runs' = [r \in 1..Len(runs) |->
                                  IF runs[r].live THEN [runs[r] EXCEPT !.list = models]
                                  ELSE runs[r]] \o Awaiting(m, models)
           /\ last' = [op |-> "resetObject", what |-> what, selected |-> selectedObject,
                       before |-> loadedModels, events |-> events]
    /\ EditFrame

(***************************************************************************)
(* HomeView and ModelList over the model store of the backend.  A request  *)
(* is sent, handled by the server at some later moment (or lost), and its  *)
(* response is delivered to the awaiting handler later still.              *)
(***************************************************************************)
HomeIds == {1, 2}
MaxRequests == 2
NoCause == 0

\* A request in flight.  For a GET /api/models, id is the model whose
\* model-deleted event started the fetch (NoCause for the fetch of
\* onMounted); orphan says that the ModelList instance awaiting a DELETE
\* has been unmounted since.
Request(kind, id) ==
    [kind |-> kind, id |-> id, state |-> "sent", data |-> <<>>, orphan |-> FALSE]

\* response.data of GET /api/models: the stored models, in id order
Listing(S) ==
    LET RECURSIVE asc(_)
        asc(T) == IF T = {} THEN <<>>
                  ELSE LET least == CHOOSE x \in T : \A y \in T : x <= y
                       IN  <<least>> \o asc(T \ {least})
    IN  asc(S)

ListedIds(list) == {list[i] : i \in 1..Len(list)}

\* The v-if chain of HomeView's template: ModelList is rendered only then
ListShown(isLoading, err, list) == ~isLoading /\ err = "null" /\ list # <<>>

\* The requests left when ModelList is unmounted: its pending deleteModel
\* calls lose their component
Unmounted(reqs) ==
    [k \in 1..Len(reqs) |->
        IF reqs[k].kind = "delete" THEN [reqs[k] EXCEPT !.orphan = TRUE] ELSE reqs[k]]

Without(reqs, k) == SubSeq(reqs, 1, k - 1) \o SubSeq(reqs, k + 1, Len(reqs))

HomeOnly == UNCHANGED <<uploaderVars, drawerVars, pageVars, viewerVars, analyzerVars,
                        assetVars, fetchVars>>

\* fetchModels up to its await; loading hides ModelList
fetchModels(cause, reqs) ==
    /\ loading' = TRUE
    /\ requests' = Append(Unmounted(reqs), Request("get", cause))
    /\ UNCHANGED <<homeModels, homeError>>

\* The backend handles the k-th request and answers ("ok"), handles it but
\* the answer does not arrive ("lost"), or never receives it ("unsent")
serve(k, outcome) ==
    LET req == requests[k]
        handled == outcome # "unsent"
        found == req.kind = "get" \/ req.id \in serverModels
        answer == IF outcome = "ok" /\ found THEN "ok" ELSE "failed"
    IN  /\ req.state = "sent"
        /\ serverModels' = IF handled /\ req.kind = "delete"
                           THEN serverModels \ {req.id}
                           ELSE serverModels
        /\ requests' = [requests EXCEPT ![k].state = answer,
                                        ![k].data = IF answer = "ok" /\ req.kind = "get"
                                                    THEN Listing(serverModels)
                                                    ELSE <<>>]
        /\ last' = [op |-> "serve", kind |-> req.kind, id |-> req.id]
        /\ UNCHANGED <<homeModels, loading, homeError>>
        /\ HomeOnly

\* fetchModels from its await on
fetchSettled(k) ==
    LET req == requests[k]
        ok == req.state = "ok"
        list == IF ok THEN req.data ELSE homeModels
        err == IF ok THEN homeError
               ELSE "Failed to load models. Please try again later."
        rest == Without(requests, k)
    IN  /\ req.kind = "get"
        /\ req.state # "sent"
        /\ homeModels' = list
        /\ homeError' = err
        /\ loading' = FALSE
        /\ requests' = IF ListShown(loading, homeError, homeModels) /\ ~ListShown(FALSE, err, list)
                       THEN Unmounted(rest)
                       ELSE rest
        /\ last' = [op |-> "fetchSettled", ok |-> ok, cause |-> req.id,
                    listed |-> req.id \in ListedIds(homeModels), data |-> req.data]
        /\ UNCHANGED serverModels
        /\ HomeOnly

\* ModelList.deleteModel up to its await: the delete button of a listed
\* model, and the answer to confirm()
deleteModel(id, confirmed) ==
    /\ ListShown(loading, homeError, homeModels)
    /\ id \in ListedIds(homeModels)
    /\ IF confirmed
       THEN /\ Cardinality({k \in 1..Len(requests) : requests[k].kind = "delete"})
                   < MaxRequests
            /\ requests' = Append(requests, Request("delete", id))
       ELSE UNCHANGED requests
    /\ last' = [op |-> "deleteModel", id |-> id, confirmed |-> confirmed]
    /\ UNCHANGED <<serverModels, homeModels, loading, homeError>>
    /\ HomeOnly

\* Whether deleteModel emits model-deleted, by the outcome of its await
EmitsOnFailureToo(ok) == TRUE
EmitsModelDeleted(ok) == ok

\* ModelList.deleteModel from its await on.  The emit of a ModelList that
\* has been unmounted meanwhile may or may not reach HomeView (delivered).
deleteSettled(k, delivered) ==
    LET req == requests[k]
        ok == req.state = "ok"
        emitted == EmitsModelDeleted(ok) /\ (~req.orphan \/ delivered)
        rest == Without(requests, k)
    IN  /\ req.kind = "delete"
        /\ req.state # "sent"
        /\ req.orphan \/ delivered
        /\ IF emitted
           THEN fetchModels(req.id, rest)
           ELSE /\ requests' = rest
                /\ UNCHANGED <<homeModels, loading, homeError>>
        /\ last' = [op |-> "deleteSettled", id |-> req.id, ok |-> ok,
                    emitted |-> emitted,
                    shown |-> IF ok THEN "<none>"
                              ELSE "Failed to delete model. Please try again."]
        /\ UNCHANGED serverModels
        /\ HomeOnly

\* HomeView just mounted: onMounted(fetchModels) has sent its request
InitHome ==
    /\ serverModels = HomeIds
    /\ homeModels = <<>>
    /\ loading = TRUE
    /\ homeError = "null"
    /\ requests = <<Request("get", NoCause)>>

NextHome ==
    \/ \E k \in 1..Len(requests), outcome \in {"ok", "lost", "unsent"} : serve(k, outcome)
    \/ \E k \in 1..Len(requests) : fetchSettled(k)
    \/ \E id \in HomeIds, confirmed \in BOOLEAN : deleteModel(id, confirmed)
    \/ \E k \in 1..Len(requests), delivered \in BOOLEAN : deleteSettled(k, delivered)

(***************************************************************************)
(* The fetches of ModelSelector (GET /api/models, once, from onMounted)    *)
(* and of ModelView (GET /api/models/:id, from onMounted and from the      *)
(* watcher of the id prop).  A response is the outcome of the request:     *)
(* resolved with the data, or rejected.                                    *)
(***************************************************************************)
ViewIds == {1, 2}
MaxFetches == 2
NoId == 0

FetchOnly == UNCHANGED <<uploaderVars, drawerVars, pageVars, viewerVars, homeVars,
                         analyzerVars, assetVars>>

\* ModelSelector.fetchModels from its await on
selectorFetched(ok) ==
    LET data == Listing(serverModels)
    IN  /\ modelSelector.pending
        /\ modelSelector' =
               [availableModels |-> IF ok THEN data ELSE modelSelector.availableModels,
                error |-> IF ok THEN modelSelector.error
                          ELSE "Failed to load models. Please try again later.",
                loading |-> FALSE,
                pending |-> FALSE]
        /\ last' = [op |-> "selectorFetched", ok |-> ok, data |-> data]
        /\ UNCHANGED modelView
        /\ FetchOnly

\* ModelView.fetchModel(modelId) up to its await; the fetches of a ModelView
\* are numbered in the order they start
fetchModel(v, modelId) ==
    IF modelId = NoId
    THEN [v EXCEPT !.error = "Invalid model ID", !.loading = FALSE]
    ELSE [v EXCEPT !.loading = TRUE,
                   !.error = "null",
                   !.started = @ + 1,
                   !.requests = Append(@, [serial |-> v.started + 1, id |-> modelId])]

\* watch(() => props.id) of a mounted ModelView: the route changes to
\* another model
idChanged(newId) ==
    /\ modelView.id # NoId
    /\ newId # modelView.id
    /\ modelView.started < MaxFetches
    /\ modelView' = IF newId # NoId
                    THEN fetchModel([modelView EXCEPT !.id = newId], newId)
                    ELSE [modelView EXCEPT !.id = newId]
    /\ last' = [op |-> "idChanged", id |-> newId]
    /\ UNCHANGED modelSelector
    /\ FetchOnly

\* fetchModel with loading reset at the end of the try block only
fetchModelSettledInTry(k, ok) ==
    LET req == modelView.requests[k]
    IN  /\ modelView' = [modelView EXCEPT
               !.model = IF ok THEN req.id ELSE @,
               !.error = IF ok THEN @ ELSE "Failed to load model",
               !.loading = IF ok THEN FALSE ELSE @,
               !.requests = Without(@, k)]
        /\ last' = [op |-> "fetchModelSettled", serial |-> req.serial, ok |-> ok,
                    id |-> req.id]
        /\ UNCHANGED modelSelector
        /\ FetchOnly

\* ModelView.fetchModel from its await on: the answer to the k-th request in
\* flight arrives (in any order); model stands for response.data, the model
\* of the requested id
fetchModelSettled(k, ok) ==
    LET req == modelView.requests[k]
    IN  /\ modelView' = [modelView EXCEPT
               !.model = IF ok THEN req.id ELSE @,
               !.error = IF ok THEN @ ELSE "Failed to load model",
               !.loading = FALSE,
               !.requests = Without(@, k)]
        /\ last' = [op |-> "fetchModelSettled", serial |-> req.serial, ok |-> ok,
                    id |-> req.id]
        /\ UNCHANGED modelSelector
        /\ FetchOnly

\* The page that is open decides which component is mounted: ModelSelector
\* on /scene, ModelView on /model/:id.  onMounted of the mounted component
\* has started its fetch; the other component is as setup() would leave it.
InitFetch(page, id) ==
    LET setup == [id |-> id, model |-> NoId, loading |-> TRUE, error |-> "null",
                  started |-> 0, requests |-> <<>>]
    IN  /\ modelSelector = [availableModels |-> <<>>, error |-> "null",
                            loading |-> TRUE, pending |-> page = "/scene"]
        /\ modelView = IF page = "/model" THEN fetchModel(setup, id) ELSE setup

\* HomeView, ModelSelector and ModelView, each with its requests
NextFetch ==
    \/ \E k \in 1..Len(requests), outcome \in {"ok", "lost", "unsent"} : serve(k, outcome)
    \/ \E k \in 1..Len(requests) : fetchSettled(k)
    \/ \E id \in HomeIds, confirmed \in BOOLEAN : deleteModel(id, confirmed)
    \/ \E k \in 1..Len(requests), delivered \in BOOLEAN : deleteSettled(k, delivered)
    \/ \E ok \in BOOLEAN : selectorFetched(ok)
    \/ \E newId \in ViewIds : idChanged(newId)
    \/ \E k \in 1..Len(modelView.requests), ok \in BOOLEAN : fetchModelSettled(k, ok)

\* Every request eventually settles: a request in flight is eventually
\* handled by the server, and its answer eventually reaches the handler
\* that awaits it
MaxInFlight == 1 + Cardinality(HomeIds) + MaxRequests

EveryRequestSettles ==
    /\ \A k \in 1..MaxInFlight :
           /\ WF_vars(/\ k <= Len(requests)
                      /\ \E outcome \in {"ok", "lost", "unsent"} : serve(k, outcome))
           /\ WF_vars(k <= Len(requests) /\ fetchSettled(k))
    /\ WF_vars(\E ok \in BOOLEAN : selectorFetched(ok))
    /\ \A k \in 1..MaxFetches :
           WF_vars(/\ k <= Len(modelView.requests)
                   /\ \E ok \in BOOLEAN : fetchModelSettled(k, ok))

(***************************************************************************)
(* ModelAnalyzer: the saved descriptions in localStorage                   *)
(***************************************************************************)
AnalyzerIds == {1, 2}
NoModelId == 0
MaxTime == 2
MaxStored == 3

\* The description saveModelDescription builds; its id is
\* desc_<modelId>_<Date.now()>
Description(modelId, time) == [id |-> <<modelId, time>>, modelId |-> modelId]

AnalyzerOnly == UNCHANGED <<uploaderVars, drawerVars, pageVars, viewerVars, homeVars,
                            assetVars, fetchVars>>

\* setup() of a new ModelAnalyzer: nothing selected, loadSavedDescriptions
analyzerSetup ==
    /\ selectedModelId' = NoModelId
    /\ savedDescriptions' = storage
    /\ last' = [op |-> "analyzerSetup"]
    /\ UNCHANGED <<storage, clock>>
    /\ AnalyzerOnly

\* The model select (v-model="selectedModelId")
selectModelId(m) ==
    /\ selectedModelId' = m
    /\ last' = [op |-> "selectModelId", id |-> m]
    /\ UNCHANGED <<storage, savedDescriptions, clock>>
    /\ AnalyzerOnly

\* The clock behind Date.now() advances
tick ==
    /\ clock < MaxTime
    /\ clock' = clock + 1
    /\ last' = [op |-> "tick"]
    /\ UNCHANGED <<storage, savedDescriptions, selectedModelId>>
    /\ AnalyzerOnly

\* canSave, with something typed into the form
canSave == selectedModelId # NoModelId

\* saveModelDescription, the Save Description button
saveModelDescription ==
    /\ canSave
    /\ Len(storage) < MaxStored
    /\ LET saved == Append(storage, Description(selectedModelId, clock))
       IN  /\ storage' = saved
           /\ savedDescriptions' = saved
    /\ last' = [op |-> "saveModelDescription", modelId |-> selectedModelId,
                before |-> storage]
    /\ UNCHANGED <<selectedModelId, clock>>
    /\ AnalyzerOnly

\* deleteDescription(id), the Delete button of a listed description, and
\* the answer to confirm()
deleteDescription(d, confirmed) ==
    /\ d \in 1..Len(savedDescriptions)
    /\ IF confirmed
       THEN LET id == savedDescriptions[d].id
                keep == {i \in 1..Len(savedDescriptions) : savedDescriptions[i].id # id}
                RECURSIVE filter(_)
                filter(i) == IF i > Len(savedDescriptions) THEN <<>>
                             ELSE (IF i \in keep THEN <<savedDescriptions[i]>> ELSE <<>>)
                                  \o filter(i + 1)
                saved == filter(1)
            IN  /\ storage' = saved
                /\ savedDescriptions' = saved
       ELSE UNCHANGED <<storage, savedDescriptions>>
    /\ last' = [op |-> "deleteDescription", confirmed |-> confirmed,
                id |-> savedDescriptions[d].id, before |-> storage]
    /\ UNCHANGED <<selectedModelId, clock>>
    /\ AnalyzerOnly

\* saveModelDescription of another ModelAnalyzer instance (another tab on the
\* same origin): localStorage is shared, the list in memory here is not
otherInstanceSaves(m) ==
    /\ Len(storage) < MaxStored
    /\ storage' = Append(storage, Description(m, clock))
    /\ last' = [op |-> "otherInstanceSaves", modelId |-> m]
    /\ UNCHANGED <<savedDescriptions, selectedModelId, clock>>
    /\ AnalyzerOnly

InitAnalyzer ==
    /\ storage = <<>>
    /\ savedDescriptions = <<>>
    /\ selectedModelId = NoModelId
    /\ clock = 0

NextAnalyzer ==
    \/ analyzerSetup
    \/ \E m \in AnalyzerIds \cup {NoModelId} : selectModelId(m)
    \/ tick
    \/ saveModelDescription
    \/ \E d \in 1..Len(savedDescriptions), confirmed \in BOOLEAN :
           deleteDescription(d, confirmed)
    \/ \E m \in AnalyzerIds : otherInstanceSaves(m)

(***************************************************************************)
(* SimpleModelViewer: the texture requests.  They are followed in          *)
(* SpecAssets only; the server answers a request when it settles.  A       *)
(* request in flight is a record of textureCalls: its kind, the object     *)
(* that was selected when its handler started (for) and the handler that   *)
(* started it (from).                                                      *)
(***************************************************************************)
MaxTextureUploads == 2
NoTexture == 0

AssetsOnly == UNCHANGED <<uploaderVars, drawerVars, pageVars, viewerVars, homeVars,
                          analyzerVars, fetchVars>>

\* loadTextures from its await on
texturesSettled(k, ok) ==
    /\ k \in 1..Len(textureCalls)
    /\ textureCalls[k].kind = "list"
    /\ textureCalls' = Without(textureCalls, k)
    /\ availableTextures' = IF ok THEN Listing(1..serverTextures) ELSE availableTextures
    /\ last' = [op |-> "texturesSettled", ok |-> ok, shown |-> "<none>",
                calls |-> Len(textureCalls)]
    /\ UNCHANGED serverTextures
    /\ AssetsOnly

\* handleTextureUpload up to its await: a file picked in the material
\* panel of the selected object
handleTextureUpload ==
    /\ PanelShown
    /\ serverTextures + Cardinality({k \in 1..Len(textureCalls) : textureCalls[k].kind = "upload"})
           < MaxTextureUploads
    /\ textureCalls' = Append(textureCalls, [kind |-> "upload", for |-> selectedObject,
                                             from |-> "upload"])
    /\ last' = [op |-> "handleTextureUpload"]
    /\ UNCHANGED <<availableTextures, serverTextures>>
    /\ AssetsOnly

\* handleTextureUpload from its await on
textureUploadSettled(k, ok) ==
    /\ k \in 1..Len(textureCalls)
    /\ textureCalls[k].kind = "upload"
    /\ textureCalls' = Without(textureCalls, k)
                         \o (IF ok /\ selectedObject # NoObject
                             THEN <<[textureCalls[k] EXCEPT !.kind = "image"]>> ELSE <<>>)
    /\ serverTextures' = IF ok THEN serverTextures + 1 ELSE serverTextures
    /\ availableTextures' = IF ok THEN Append(availableTextures, serverTextures + 1)
                            ELSE availableTextures
    /\ last' = [op |-> "textureUploadSettled", ok |-> ok,
                shown |-> IF ok THEN "<none>"
                          ELSE "Failed to upload texture. Please try again.",
                calls |-> Len(textureCalls)]
    /\ AssetsOnly

\* applySelectedTexture(textureId) up to its await, the texture select: no
\* texture (NoTexture) calls updateObjectMaterial() at once, a listed
\* texture is loaded first
applySelectedTexture(textureId) ==
    /\ PanelShown
    /\ textureId \in {availableTextures[i] : i \in 1..Len(availableTextures)} \cup {NoTexture}
    /\ IF textureId = NoTexture
       THEN /\ materials' = updateObjectMaterial(materials, selectedObject, FALSE)
            /\ UNCHANGED textureCalls
       ELSE /\ Len(textureCalls) < MaxTextureUploads
            /\ textureCalls' = Append(textureCalls, [kind |-> "image", for |-> selectedObject,
                                                     from |-> "select"])
            /\ UNCHANGED materials
    /\ last' = [op |-> "applySelectedTexture", textureId |-> textureId]
    /\ UNCHANGED <<availableTextures, serverTextures>>
    /\ UNCHANGED <<uploaderVars, drawerVars, pageVars, homeVars, analyzerVars, fetchVars>>
    /\ UNCHANGED <<mounted, controls, editMode, selectedObject, isDragging, moveStep,
                   loadedModels, untracked, runs, edits>>

\* applySelectedTexture from its await on: loadTexture returned the texture
\* (ok) or null; updateObjectMaterial applies to the object selected by now
textureLoaded(k, ok) ==
    /\ k \in 1..Len(textureCalls)
    /\ textureCalls[k].kind = "image"
    /\ textureCalls' = Without(textureCalls, k)
    /\ materials' = IF ok THEN updateObjectMaterial(materials, selectedObject, TRUE)
                    ELSE materials
    /\ last' = [op |-> "textureLoaded", ok |-> ok, selected |-> selectedObject,
                for |-> textureCalls[k].for, from |-> textureCalls[k].from]
    /\ UNCHANGED <<availableTextures, serverTextures>>
    /\ UNCHANGED <<uploaderVars, drawerVars, pageVars, homeVars, analyzerVars, fetchVars>>
    /\ UNCHANGED <<mounted, controls, editMode, selectedObject, isDragging, moveStep,
                   loadedModels, untracked, runs, edits>>

\* updateMaterialColor, updateMaterialEmissive and updateMaterialProperty:
\* the colour or property of the kept material object is set; which
\* material the meshes carry does not change
updateMaterialProperty ==
    /\ PanelShown
    /\ last' = [op |-> "updateMaterialProperty"]
    /\ UNCHANGED <<uploaderVars, drawerVars, pageVars, viewerVars, homeVars, analyzerVars,
                   assetVars, fetchVars>>

\* onMounted of the viewer calls loadTextures
InitAssets ==
    /\ availableTextures = <<>>
    /\ serverTextures = 0
    /\ textureCalls = IF mounted
                      THEN <<[kind |-> "list", for |-> NoObject, from |-> "mounted"]>>
                      ELSE <<>>

\* Selection among material edits and texture applications
NextHighlight ==
    \/ \E r \in 1..Len(runs), ok \in BOOLEAN : loadSettled(r, ok)
    \/ toggleEditMode
    \/ \E target \in DOMAIN loadedModels \cup {NoObject} : onMouseClick(target)
    \/ updateMaterialProperty
    \/ \E k \in 1..Len(textureCalls), ok \in BOOLEAN : texturesSettled(k, ok)
    \/ handleTextureUpload
    \/ \E k \in 1..Len(textureCalls), ok \in BOOLEAN : textureUploadSettled(k, ok)
    \/ \E textureId \in 0..MaxTextureUploads : applySelectedTexture(textureId)
    \/ \E k \in 1..Len(textureCalls), ok \in BOOLEAN : textureLoaded(k, ok)

NextAssets ==
    \/ \E r \in 1..Len(runs), ok \in BOOLEAN : loadSettled(r, ok)
    \/ toggleEditMode
    \/ \E target \in DOMAIN loadedModels \cup {NoObject} : onMouseClick(target)
    \/ \E k \in 1..Len(textureCalls), ok \in BOOLEAN : texturesSettled(k, ok)
    \/ handleTextureUpload
    \/ \E k \in 1..Len(textureCalls), ok \in BOOLEAN : textureUploadSettled(k, ok)

InitScene ==
    /\ route = "/"
    /\ createdModels = <<>>
    /\ availableModels = {}
    /\ selectedModels = <<>>
    /\ isDrawing = FALSE
    /\ drawingResult = NoResult
    /\ drawRequests = 0
    /\ drawn = 0
    /\ mounted = FALSE
    /\ controls = "null"
    /\ editMode = FALSE
    /\ selectedObject = NoObject
    /\ isDragging = FALSE
    /\ moveStep = JNum(10)
    /\ loadedModels = <<>>
    /\ untracked = {}
    /\ runs = <<>>
    /\ edits = 0
    /\ materials = [id \in AllIds |-> OwnMaterial]

NextDrawer ==
    \/ \E f \in 1..Len(JsonFiles) : handleJsonFileUpload(f)
    \/ \E k \in 1..Len(pendingReads) : jsonFileRead(k)
    \/ clearCoordinates
    \/ \E r \in {"/", "/create"} : navigate(r)
    \/ drawCustomCoords
    \/ drawResolved
    \/ drawRejected
    \/ \E coordinatesText \in
           {JStr(<<>>), JStr(<<"1", "\n", "2">>),
            JStr(<<"1", "\n", " ", "\n", "2", "\n", "\n">>),
            JStr(<<"1", "\n", "2", "\n", "3">>),
            JStr(<<"\n", "1", "\n", " ", "\n", "2", " ", "\n", "3", "\n">>),
            JArr(<<>>), JArr(<<Coord(JNum(1), JNum(2), JNull)>>),
            JArr([i \in 1..2 |-> Coord(JNum(i), JNum(0), JNum(0))]),
            JArr([i \in 1..3 |-> Coord(JNum(i), JNull, JNum(12))]),
            JNull, JNum(3)} : apiCall(coordinatesText)

NextScene ==
    \/ \E r \in {"/", "/scene", "/create"} : navigate(r)
    \/ \E m \in 1..(1 + MaxDrawn) : addToScene(m)
    \/ \E id \in availableModels : toggleModel(id)
    \/ drawPrimitive
    \/ drawResolved
    \/ drawRejected
    \/ addModelToScene
    \/ \E r \in 1..Len(runs), ok \in BOOLEAN : loadSettled(r, ok)

\* The viewer as SceneView has just mounted it, for a scene list of one
\* catalogue model or of a catalogue model and a drawn one
InitViewer ==
    /\ route = "/scene"
    /\ createdModels = <<>>
    /\ availableModels = CatalogIds
    /\ selectedModels \in {addModel(<<>>, 1), handleModelCreated(addModel(<<>>, 1), 2)}
    /\ isDrawing = FALSE
    /\ drawingResult = NoResult
    /\ drawRequests = 0
    /\ drawn = Len(selectedModels) - 1
    /\ mounted = TRUE
    /\ controls = "enabled"
    /\ editMode = FALSE
    /\ selectedObject = NoObject
    /\ isDragging = FALSE
    /\ moveStep = JNum(10)
    /\ loadedModels = <<>>
    /\ untracked = {}
    /\ runs = Awaiting(manageModels(<<>>, selectedModels), selectedModels)
    /\ edits = 0
    /\ materials = [id \in AllIds |-> OwnMaterial]

NextViewer ==
    \/ \E r \in 1..Len(runs), ok \in BOOLEAN : loadSettled(r, ok)
    \/ toggleEditMode
    \/ \E target \in DOMAIN loadedModels \cup {NoObject} : onMouseClick(target)
    \/ \E hit \in BOOLEAN : onMouseDown(hit)
    \/ onMouseUp
    \/ \E up \in BOOLEAN : onMouseWheel(up)

\* The scene editor while every model file loads: the list changes by card
\* clicks and draws, and models are selected in edit mode
NextLive ==
    \/ navigate("/scene")
    \/ \E id \in availableModels : toggleModel(id)
    \/ drawPrimitive
    \/ drawResolved
    \/ \E r \in 1..Len(runs) : loadSettled(r, TRUE)
    \/ toggleEditMode
    \/ \E target \in DOMAIN loadedModels \cup {NoObject} : onMouseClick(target)

\* The inputs of ModelSelector's list while the viewer loads the models
NextSelector ==
    \/ \E r \in 1..Len(runs) : loadSettled(r, TRUE)
    \/ \E id \in AllIds : updateModelColor(id, "#00ff00")
    \/ \E id \in AllIds : updateModelPosition(id, "x", JNum(5))
    \/ \E id \in AllIds, value \in {JNum(20), JNum(-10)} : updateModelScale(id, value)

\* The reset buttons among moves, rotations and scalings
NextReset ==
    \/ \E r \in 1..Len(runs), ok \in BOOLEAN : loadSettled(r, ok)
    \/ toggleEditMode
    \/ \E target \in DOMAIN loadedModels \cup {NoObject} : onMouseClick(target)
    \/ \E up \in BOOLEAN : scaleObject(up)
    \/ \E axis \in Axes, positive \in BOOLEAN : moveObject(axis, positive)
    \/ \E positive \in BOOLEAN : rotateObject("y", positive)
    \/ \E what \in {"position", "rotation", "transform"} : resetObject(what)

NextEdit ==
    \/ \E r \in 1..Len(runs), ok \in BOOLEAN : loadSettled(r, ok)
    \/ toggleEditMode
    \/ \E target \in DOMAIN loadedModels \cup {NoObject} : onMouseClick(target)
    \/ \E up \in BOOLEAN : scaleObject(up)
    \/ \E s \in StepOptions : chooseMoveStep(s)
    \/ \E axis \in Axes, positive \in BOOLEAN : moveObject(axis, positive)
    \/ \E positive \in BOOLEAN : rotateObject("y", positive)

Init ==
    /\ last = [op |-> "init"]
    /\ InitUploader
    /\ InitDrawer
    /\ InitScene
    /\ InitHome
    /\ InitAnalyzer
    /\ InitAssets
    /\ InitFetch("/", NoId)

SpecUploader == Init /\ [][NextUploader]_vars
SpecDrawer == Init /\ [][NextDrawer]_vars
SpecScene == Init /\ [][NextScene]_vars
SpecLive == Init /\ [][NextLive]_vars

\* Automatic placement alone: models are added one after another to the
\* list, each by handleModelCreated or by addModelAtGrid, with an id the list
\* does not hold yet
MaxGridAdds == 5
GridIds == 1..MaxGridAdds
placeModel(id, created) ==
    /\ Len(selectedModels) < MaxGridAdds
    /\ \A i \in 1..Len(selectedModels) : selectedModels[i].id # id
    /\ selectedModels' = IF created THEN handleModelCreated(selectedModels, id)
                                    ELSE addModelAtGrid(selectedModels, id)
    /\ last' = [op |-> "placeModel", id |-> id, created |-> created]
    /\ OutsideScene
    /\ UNCHANGED <<route, createdModels, availableModels, isDrawing, drawingResult,
                   drawRequests, drawn, viewerVars>>

NextGrid == \E id \in GridIds, created \in BOOLEAN : placeModel(id, created)
SpecGrid == Init /\ [][NextGrid]_vars
SpecHome == Init /\ [][NextHome]_vars
SpecAnalyzer == Init /\ [][NextAnalyzer]_vars

\* One of the three pages that fetch is open (HomeView on /), ModelView on
\* any model; the pages that are not open have no component and no request
InitFetching ==
    /\ last = [op |-> "init"]
    /\ InitUploader
    /\ InitDrawer
    /\ InitScene
    /\ InitAnalyzer
    /\ InitAssets
    /\ \E page \in {"/", "/scene", "/model"}, id \in ViewIds :
           /\ page = "/model" \/ id = 1
           /\ InitFetch(page, IF page = "/model" THEN id ELSE NoId)
           /\ IF page = "/"
              THEN InitHome
              ELSE /\ serverModels = HomeIds
                   /\ homeModels = <<>>
                   /\ loading = TRUE
                   /\ homeError = "null"
                   /\ requests = <<>>

SpecFetch == InitFetching /\ [][NextFetch]_vars /\ EveryRequestSettles

\* The viewer on its own: the scene editor is open and SceneView has just
\* mounted the viewer
InitMounted ==
    /\ last = [op |-> "init"]
    /\ InitUploader
    /\ InitDrawer
    /\ InitViewer
    /\ InitHome
    /\ InitAnalyzer
    /\ InitAssets
    /\ InitFetch("/", NoId)

SpecViewer == InitMounted /\ [][NextViewer]_vars
SpecEdit == InitMounted /\ [][NextEdit]_vars
SpecAssets == InitMounted /\ [][NextAssets]_vars
SpecReset == InitMounted /\ [][NextReset]_vars
SpecHighlight == InitMounted /\ [][NextHighlight]_vars
SpecSelector == InitMounted /\ [][NextSelector]_vars

(***************************************************************************)
(* C1: every toggleEditMode call that turns edit mode off leaves the       *)
(* viewer with no selected object, no drag in progress and the orbit       *)
(* controls enabled, whatever toggles, clicks, drag starts, drag ends and  *)
(* wheel events came before.                                               *)
(***************************************************************************)
C1_ToggleOffClearsSelection ==
    (last.op = "toggleEditMode" /\ ~editMode) =>
        /\ selectedObject = NoObject
        /\ ~isDragging
        /\ controls = "enabled"

\* Edit mode was left while an object was selected and being dragged
C1_Witness ==
    /\ last.op = "toggleEditMode"
    /\ ~editMode
    /\ last.selected # NoObject
    /\ last.dragging

(***************************************************************************)
(* C2                                                                      *)
(***************************************************************************)
HasDot(name) == \E i \in 1..Len(name) : name[i] = "."

\* the text after the last dot of a name that has one, lower-cased
TextAfterLastDot(name) ==
    LET k == CHOOSE i \in 1..Len(name) :
                 /\ name[i] = "."
                 /\ \A j \in (i + 1)..Len(name) : name[j] # "."
    IN  toLowerCase(SubSeq(name, k + 1, Len(name)))

AcceptedFormats ==
    { <<"o", "b", "j">>, <<"g", "l", "t", "f">>, <<"g", "l", "b">>, <<"f", "b", "x">> }

BadExtension(name) == HasDot(name) /\ TextAfterLastDot(name) \notin AcceptedFormats

WellFormedArrayPoint(v) == v.t = "arr" /\ Len(v.e) >= 3
WellFormedObjectPoint(v) ==
    /\ v.t = "obj"
    /\ \A key \in {"x", "y", "z"} : \E i \in 1..Len(v.k) : v.k[i] = key

PointsYielded(j) ==
    IF j.t = "obj"
    THEN Cardinality({i \in 1..Len(j.v) : WellFormedArrayPoint(j.v[i])})
    ELSE IF j.t = "arr" /\ j.e # <<>> /\ j.e[1].t = "obj"
    THEN Cardinality({i \in 1..Len(j.e) : WellFormedObjectPoint(j.e[i])})
    ELSE IF j.t = "arr" /\ j.e # <<>> /\ j.e[1].t = "arr"
    THEN Cardinality({i \in 1..Len(j.e) : WellFormedArrayPoint(j.e[i])})
    ELSE 0

\* C3: every JSON coordinate file that yields fewer than 3 points (in any of
\* the three accepted shapes, or any other JSON value) is rejected with the
\* message that states the number of points found, and the coordinates and
\* file name loaded before stay as they were.
C3_FewPointsRejectedWithCount ==
    (/\ last.op = "jsonFileRead"
     /\ JsonFiles[last.file].valid
     /\ PointsYielded(JsonFiles[last.file].json) < 3)
    => /\ drAlert = AlertCount(PointsYielded(JsonFiles[last.file].json))
       /\ <<loadedCoordinates, fileName>> = last.before

(***************************************************************************)
(* C4: in the home view ModelList emits model-deleted, which starts the    *)
(* re-fetch of the list, only after DELETE /api/models/:id has resolved    *)
(* successfully, so a re-fetch started for a model is in flight only once  *)
(* the server no longer stores that model; and when that re-fetch has      *)
(* completed successfully the deleted model's id is not in the list.       *)
(***************************************************************************)
C4_DeletedAfterConfirmation ==
    /\ \A k \in 1..Len(requests) :
           (requests[k].kind = "get" /\ requests[k].id # NoCause)
               => requests[k].id \notin serverModels
    /\ (last.op = "deleteSettled" /\ last.emitted) => last.ok
    /\ (last.op = "fetchSettled" /\ last.ok /\ last.cause # NoCause)
           => last.cause \notin ListedIds(homeModels)

\* The re-fetch started by the deletion of a listed model has completed and
\* the list, still with a model in it, is displayed again
C4_Witness ==
    /\ last.op = "fetchSettled"
    /\ last.ok
    /\ last.cause # NoCause
    /\ last.listed
    /\ ListShown(loading, homeError, homeModels)

(***************************************************************************)
(* C5: adding to the scene a model whose id is already in it has one       *)
(* consistent outcome on every add path (ModelSelector card click,         *)
(* model-created after a draw, the drawer's Add to Scene button): the      *)
(* second add is a no-op, or it creates a second instance in both the      *)
(* scene list and the viewer.  Stated as what both outcomes imply: such    *)
(* an add leaves the list as it was or with one more entry of that id,     *)
(* and once no load is in flight and every listed model is loaded, an id   *)
(* is listed twice exactly when the scene holds a second object for it.    *)
(***************************************************************************)
Count(models, id) == Cardinality({i \in 1..Len(models) : models[i].id = id})

C5_SecondAddConsistent ==
    /\ (/\ last.op \in {"toggleModel", "drawResolved", "addModelToScene"}
        /\ isModelSelected(last.before, last.id))
       => \/ selectedModels = last.before
          \/ Count(selectedModels, last.id) = Count(last.before, last.id) + 1
    /\ (/\ mounted /\ runs = <<>>
        /\ \A i \in 1..Len(selectedModels) : selectedModels[i].id \in DOMAIN loadedModels)
       => \A id \in DOMAIN loadedModels :
              (Count(selectedModels, id) >= 2) <=> (id \in untracked)

(***************************************************************************)
(* C6: whenever the viewer emits model-position-changed,                   *)
(* model-rotation-changed or model-scale-changed for a model id that is    *)
(* in SceneView's selectedModels, the entry with that id afterwards        *)
(* carries the emitted position, rotation or scale.                        *)
(***************************************************************************)
C6_EditsSyncToSceneList ==
    (/\ last.op \in {"moveObject", "rotateObject", "scaleObject", "onMouseWheel"}
     /\ last.emitted # <<>>)
    => \A i \in 1..Len(selectedModels) :
           selectedModels[i].id = last.emitted[2]
           => selectedModels[i][last.emitted[1]] = last.emitted[3]

(***************************************************************************)
(* C7: after Add to Scene was clicked for a model created on the Create    *)
(* Model page, the scene editor that opens has that model in its list of   *)
(* scene models.                                                           *)
(***************************************************************************)
C7_CreatedModelReachesScene ==
    last.op = "addToScene" =>
        /\ route = "/scene"
        /\ isModelSelected(selectedModels, last.model)

(***************************************************************************)
(* C8: every failed network call of the viewer (the texture list fetch,    *)
(* the texture upload, the load of a model file) ends with a message put   *)
(* in front of the user, and the failed texture calls are not sent again:  *)
(* the failure leaves one call fewer in flight.                            *)
(***************************************************************************)
C8_FailedCallsAreShown ==
    (/\ last.op \in {"loadSettled", "texturesSettled", "textureUploadSettled"}
     /\ ~last.ok)
    => /\ last.shown # "<none>"
       /\ last.op # "loadSettled" => Len(textureCalls) < last.calls

(***************************************************************************)
(* C9: after any sequence of saveModelDescription and deleteDescription    *)
(* calls the array stored under the localStorage key modelDescriptions     *)
(* holds at most one saved description for each model id.                  *)
(***************************************************************************)
C9_OneDescriptionPerModel ==
    \A i, j \in 1..Len(storage) :
        storage[i].modelId = storage[j].modelId => i = j

(***************************************************************************)
(* C10: with step size s, a click on a positive-direction position button  *)
(* changes the selected object's coordinate on that axis by exactly +s, a  *)
(* click on a negative-direction button by exactly -s, the other two axes  *)
(* stay as they were, and a positive click followed by a negative click    *)
(* on the same axis restores the coordinate.                               *)
(***************************************************************************)
C10_StepMovesExactly ==
    last.op = "moveObject" =>
        LET now == loadedModels[selectedObject].position
            s == ToNumber(last.step).n
        IN  /\ now[last.axis].t = "num"
            /\ last.before[last.axis].t = "num" =>
                   now[last.axis].n = last.before[last.axis].n
                                      + (IF last.positive THEN s ELSE -s)
            /\ \A a \in Axes \ {last.axis} : now[a] = last.before[a]
            /\ last.undoes # <<>> => now[last.axis] = last.undoes[1]

(***************************************************************************)
(* C11: with an object selected, Reset Position sets its position to       *)
(* (0,0,0) and changes nothing else, Reset Rotation sets its rotation to   *)
(* (0,0,0) and changes nothing else, Reset All sets position (0,0,0),      *)
(* rotation (0,0,0) and scale 1; each emits the matching change events     *)
(* for the selected model id; with no object selected each changes         *)
(* nothing and emits nothing.                                              *)
(***************************************************************************)
C11_ResetsSetOnlyTheirPart ==
    last.op = "resetObject" =>
        LET zero == [x |-> JNum(0), y |-> JNum(0), z |-> JNum(0)]
            pos == last.what \in {"position", "transform"}
            rot == last.what \in {"rotation", "transform"}
            all == last.what = "transform"
            fields == [i \in 1..Len(last.events) |-> last.events[i][1]]
        IN  /\ selectedObject = last.selected
            /\ DOMAIN loadedModels = DOMAIN last.before
            /\ \A k \in DOMAIN loadedModels \ {last.selected} :
                   loadedModels[k] = last.before[k]
            /\ last.selected = NoObject => last.events = <<>>
            /\ last.selected # NoObject =>
                   LET o == loadedModels[last.selected]
                       b == last.before[last.selected]
                   IN  /\ o.position = (IF pos THEN zero ELSE b.position)
                       /\ o.rotation = (IF rot THEN [x |-> 0, y |-> 0, z |-> 0]
                                        ELSE b.rotation)
                       /\ o.scale = (IF all THEN JNum(10) ELSE b.scale)
                       /\ fields = (IF pos THEN <<"position">> ELSE <<>>)
                                   \o (IF rot THEN <<"rotation">> ELSE <<>>)
                                   \o (IF all THEN <<"scale">> ELSE <<>>)
                       /\ \A i \in 1..Len(last.events) :
                              /\ last.events[i][2] = last.selected
                              /\ last.events[i][3] = (IF fields[i] = "scale" THEN JNum(10)
                                                      ELSE Vec(0, 0, 0))

\* Reset Position was clicked for a selected object that had been scaled
C11_Witness ==
    /\ last.op = "resetObject"
    /\ last.what = "position"
    /\ last.selected # NoObject
    /\ loadedModels[last.selected].scale # JNum(10)

(***************************************************************************)
(* C12: after any sequence of clicks, edit-mode toggles, material edits    *)
(* and texture applications at most one loaded model is selected, the      *)
(* meshes of a loaded model carry the highlight material exactly when      *)
(* that model is the selected object, and a deselected model's meshes      *)
(* carry a material of their own again.                                    *)
(***************************************************************************)
C12_HighlightIffSelected ==
    \A id \in DOMAIN loadedModels :
        (materials[id].shown = "highlight") <=> (id = selectedObject)

(***************************************************************************)
(* C13: in every reachable state of the viewer in which edit mode is on    *)
(* the orbit controls are disabled, also after a drag of the selected      *)
(* object has started and ended.                                           *)
(***************************************************************************)
C13_OrbitOffInEditMode == (mounted /\ editMode) => controls = "disabled"

(***************************************************************************)
(* C14: every fetch started by HomeView.fetchModels, ModelSelector's       *)
(* fetchModels or ModelView.fetchModel ends, provided its request settles, *)
(* with the loading flag of its component false; ended by a rejection it   *)
(* leaves the error message set, ended by a resolution it leaves the       *)
(* fetched data in the state of the component.                             *)
(***************************************************************************)
C14_FetchesEnd ==
    /\ [](/\ last.op = "fetchSettled" =>
                /\ ~loading
                /\ last.ok => homeModels = last.data
                /\ ~last.ok => homeError # "null"
          /\ last.op = "selectorFetched" =>
                /\ ~modelSelector.loading
                /\ last.ok => modelSelector.availableModels = last.data
                /\ ~last.ok => modelSelector.error # "null"
          /\ last.op = "fetchModelSettled" =>
                /\ ~modelView.loading
                /\ last.ok => modelView.model = last.id
                /\ ~last.ok => modelView.error # "null")
    /\ \A cause \in {NoCause} \cup HomeIds :
           (\E k \in 1..Len(requests) :
                requests[k].kind = "get" /\ requests[k].id = cause)
               ~> (last.op = "fetchSettled" /\ last.cause = cause /\ ~loading)
    /\ modelSelector.pending ~> (last.op = "selectorFetched" /\ ~modelSelector.loading)
    /\ \A n \in 1..MaxFetches :
           (\E k \in 1..Len(modelView.requests) : modelView.requests[k].serial = n)
               ~> (/\ last.op = "fetchModelSettled"
                   /\ last.serial = n
                   /\ ~modelView.loading)

\* The second fetch of a ModelView, started by a change of its id while the
\* first was in flight, has been rejected
C14_Witness ==
    /\ last.op = "fetchModelSettled"
    /\ last.serial = 2
    /\ ~last.ok
    /\ modelView.requests # <<>>
    /\ ~modelView.loading

(***************************************************************************)
(* C15: ModelList.deleteModel sends no DELETE when the confirmation is     *)
(* declined; when the DELETE fails it does not emit model-deleted, the     *)
(* displayed list stays as it was (a model listed before the failure is    *)
(* listed after it) and an alert reports the failure.                      *)
(***************************************************************************)
C15_FailedDeleteChangesNothing ==
    [][/\ (last'.op = "deleteModel" /\ ~last'.confirmed) =>
              /\ requests' = requests
              /\ UNCHANGED <<serverModels, homeModels, loading, homeError>>
       /\ (last'.op = "deleteSettled" /\ ~last'.ok) =>
              /\ ~last'.emitted
              /\ \A k \in 1..Len(requests') : requests'[k].state # "sent" \/
                     \E j \in 1..Len(requests) : requests[j] = requests'[k]
              /\ homeModels' = homeModels
              /\ ListShown(loading', homeError', homeModels')
                     = ListShown(loading, homeError, homeModels)
              /\ last'.id \in ListedIds(homeModels) => last'.id \in ListedIds(homeModels')
              /\ last'.shown = "Failed to delete model. Please try again."]_vars

\* A DELETE has failed while the list was displayed; its model is listed
C15_Witness ==
    /\ last.op = "deleteSettled"
    /\ ~last.ok
    /\ ListShown(loading, homeError, homeModels)
    /\ last.id \in ListedIds(homeModels)

(***************************************************************************)
(* C16: uploadModel sends no request when no file is selected or the name  *)
(* is blank.  A failed upload emits no upload-success, leaves the selected *)
(* file, the name and the description as they were and sets an error       *)
(* message; a successful upload emits upload-success exactly once, with    *)
(* the record of the server for that upload, and resets the form.  In      *)
(* both cases isUploading is false afterwards.                             *)
(***************************************************************************)
C16_UploadOutcomes ==
    [][/\ (/\ last'.op = "uploadModel"
           /\ \/ selectedFile = NoFile
              \/ \A i \in 1..Len(modelName) : modelName[i] = " ") =>
              /\ upInFlight' = upInFlight
              /\ upPosts' = upPosts
              /\ upEmitted' = upEmitted
       /\ last'.op = "uploadRejected" =>
              /\ upEmitted' = upEmitted
              /\ UNCHANGED <<selectedFile, modelName, modelDescription>>
              /\ upError' # NoError
              /\ ~isUploading'
       /\ last'.op = "uploadResolved" =>
              /\ upEmitted' = upEmitted + 1
              /\ last'.payload \in upInFlight
              /\ last'.payload \notin upInFlight'
              /\ selectedFile' = NoFile
              /\ modelName' = <<>>
              /\ modelDescription' = <<>>
              /\ upError' = NoError
              /\ uploadProgress' = 0
              /\ ~isUploading']_vars

\* An upload with a name and a description has failed
C16_Witness ==
    /\ last.op = "uploadRejected"
    /\ selectedFile # NoFile
    /\ modelName # <<>>
    /\ modelDescription # <<>>
    /\ upPosts > 0

(***************************************************************************)
(* C17                                                                     *)
(***************************************************************************)
\* The number of lines of a text that hold something other than blanks
NonEmptyLines(s) ==
    Cardinality({Cardinality({j \in 1..(i - 1) : s[j] = "\n"}) :
                     i \in {i \in 1..Len(s) : s[i] \notin {" ", "\n"}}})

\* C17: no POST to /api/draw/custom-coords is issued for fewer than 3
\* points.  After any uploads and clears loadedCoordinates holds no point or
\* at least 3; drawCustomCoords sends nothing when fewer than 3 points are
\* loaded; api.drawCustomCoords sends nothing when its input has fewer than
\* 3 non-empty coordinate lines; and what either of them posts has at least
\* 3 such lines.
C17_NoPostBelowThreePoints ==
    /\ Len(loadedCoordinates) = 0 \/ Len(loadedCoordinates) >= 3
    /\ last.op = "drawCustomCoords" =>
           /\ last.loaded < 3 => (~last.posted /\ ~isDrawing)
           /\ last.posted => NonEmptyLines(last.coordinates_text) >= 3
    /\ last.op = "apiCall" =>
           LET n == CASE last.input.t = "str" -> NonEmptyLines(last.input.s)
                      [] last.input.t = "arr" -> Len(last.input.e)
                      [] OTHER -> 0
           IN  /\ n < 3 => ~last.result.posted
               /\ last.result.posted =>
                      NonEmptyLines(last.result.coordinates_text) >= 3

\* The loaded coordinates of a file have been posted
C17_Witness ==
    /\ last.op = "drawCustomCoords"
    /\ last.posted
    /\ Len(loadedCoordinates) >= 3
    /\ isDrawing

(***************************************************************************)
(* C18: deleteDescription(id) removes from the stored array only the       *)
(* description with that id: every other description stored at the time    *)
(* of the delete remains stored, also one that another ModelAnalyzer       *)
(* instance saved after this one loaded its list; and after each save or   *)
(* delete the list in memory equals the stored array.                      *)
(***************************************************************************)
C18_DeleteRemovesOnlyThatOne ==
    /\ (last.op = "deleteDescription" /\ last.confirmed) =>
           /\ \A i \in 1..Len(last.before) :
                  last.before[i].id # last.id =>
                      \E j \in 1..Len(storage) : storage[j] = last.before[i]
           /\ \A j \in 1..Len(storage) : storage[j].id # last.id
           /\ savedDescriptions = storage
    /\ last.op = "saveModelDescription" => savedDescriptions = storage

(***************************************************************************)
(* C19: ModelSelector.toggleModel on a list with distinct ids.  A click on *)
(* the card of a model that is not in the list gives the list with one new *)
(* entry for it at the end (position (0,0,0), scale 1, rotation (0,0,0))   *)
(* and the earlier entries unchanged and in order; a click on the card of  *)
(* a model that is in the list gives the list without it, the others       *)
(* unchanged and in order; and toggling a model that was not in the list   *)
(* twice gives the original list.                                          *)
(***************************************************************************)
C19_ToggleAddsOrRemovesOne ==
    LET before == last.before
        n == Len(before)
        at == {i \in 1..n : before[i].id = last.id}
        again == IF isModelSelected(selectedModels, last.id)
                 THEN removeModel(selectedModels, last.id)
                 ELSE addModel(selectedModels, last.id)
    IN  (/\ last.op = "toggleModel"
         /\ \A i, j \in 1..n : before[i].id = before[j].id => i = j) =>
            IF at = {}
            THEN /\ Len(selectedModels) = n + 1
                 /\ SubSeq(selectedModels, 1, n) = before
                 /\ selectedModels[n + 1].id = last.id
                 /\ selectedModels[n + 1].position = Vec(0, 0, 0)
                 /\ selectedModels[n + 1].scale = JNum(10)
                 /\ selectedModels[n + 1].rotation = Vec(0, 0, 0)
                 /\ again = before
            ELSE \E k \in at :
                     selectedModels = SubSeq(before, 1, k - 1) \o SubSeq(before, k + 1, n)

\* A model has been added by its card to a list that held another model
C19_Witness ==
    /\ last.op = "toggleModel"
    /\ last.before # <<>>
    /\ ~isModelSelected(last.before, last.id)
    /\ isModelSelected(selectedModels, last.id)

C21_DrawnModelShownAtItsCell ==
    \A i \in 1..Len(selectedModels) :
        LET entry == selectedModels[i]
        IN  (/\ mounted
             /\ runs = <<>>
             /\ entry.position.t = "arr"
             /\ entry.id \in DOMAIN loadedModels) =>
                /\ loadedModels[entry.id].position
                       = [x |-> entry.position.e[1], y |-> entry.position.e[2],
                          z |-> entry.position.e[3]]
                /\ loadedModels[entry.id].scale = entry.scale.e[1]
                /\ entry.scale.e[1] = JNum(15)

(***************************************************************************)
(* C22: under overlapping runs of manageModels the viewer never holds an   *)
(* untracked model object: every model object added to the scene is the    *)
(* value loadedModels stores for its id, so the scene holds at most one    *)
(* object per model id.                                                    *)
(***************************************************************************)
C22_NoUntrackedObject == mounted => untracked = {}

(***************************************************************************)
(* C23: the viewer converges to the scene list.  After any adds and        *)
(* removals in the models prop, also a removal of a model whose file is    *)
(* still loading, once no load is in flight (every load having succeeded)  *)
(* the ids in loadedModels are the ids in the models prop.                 *)
(***************************************************************************)
C23_ViewerConvergesToList ==
    (mounted /\ runs = <<>>) =>
        DOMAIN loadedModels = {selectedModels[i].id : i \in 1..Len(selectedModels)}

(***************************************************************************)
(* C24: the selection never refers to a model that has left the scene:     *)
(* selectedObject is null or an object that loadedModels stores, also      *)
(* after the selected model is removed from the models prop in edit mode.  *)
(***************************************************************************)
C24_SelectionIsLoaded ==
    mounted => (selectedObject = NoObject \/ selectedObject \in DOMAIN loadedModels)

(***************************************************************************)
(* C25: in ModelView, when the id prop changes while an earlier fetch is   *)
(* in flight, the responses may arrive in any order; once every fetch has  *)
(* settled, all of them successfully, the displayed model is the one of    *)
(* the current id prop; and loading is not false while a fetch for the     *)
(* current id is in flight.                                                *)
(***************************************************************************)
C25_CurrentIdWins ==
    modelView.id # NoId =>
        /\ (modelView.requests = <<>> /\ modelView.error = "null") =>
               modelView.model = modelView.id
        /\ (\E k \in 1..Len(modelView.requests) :
                modelView.requests[k].id = modelView.id) => modelView.loading


\* C26: in ModelDrawer isDrawing is true in every state in which at least one
\* drawing request is in flight, also when several quick-draw buttons are
\* clicked before the first response arrives; it is false only when no
\* drawing request is in flight.
C26_DrawingWhileInFlight == drawRequests > 0 => isDrawing


\* C27: the scene list never holds two entries with the same model id: after
\* any sequence of card clicks, removals, model-created events and Add to
\* Scene clicks the ids of selectedModels are pairwise distinct.
C27_IdsPairwiseDistinct ==
    \A i, j \in 1..Len(selectedModels) :
        selectedModels[i].id = selectedModels[j].id => i = j


\* C28: automatic grid placement gives every model its own cell: for models
\* added one after another to a scene that starts empty, the positions
\* computed for any two different adds (of the same handler, hence with the
\* same spacing) are different.
C28_EveryModelItsOwnCell ==
    LET Cell(p) == IF p.t = "arr" THEN <<p.e[1], p.e[2], p.e[3]>>
                                  ELSE <<p.v[1], p.v[2], p.v[3]>>
    IN  \A i, j \in 1..Len(selectedModels) :
            (i # j /\ selectedModels[i].position.t = selectedModels[j].position.t) =>
                Cell(selectedModels[i].position) # Cell(selectedModels[j].position)


\* C29: the uniform scale of a loaded model never drops below 0.1: after any
\* sequence of scale +/- clicks, mouse-wheel events in edit mode and scale
\* values entered in the ModelSelector scale input every loaded model's
\* scale is at least 0.1 (1 in tenths).
C29_ScaleAtLeastMinimum ==
    \A id \in DOMAIN loadedModels :
        loadedModels[id].scale.t = "num" /\ loadedModels[id].scale.n >= 1


\* C30: a texture uploaded from the edit panel is applied to the object that
\* was selected when the upload was started: when the uploaded texture has
\* been loaded, the material of no other object changes.
C30_UploadedTextureGoesToItsObject ==
    [][(last'.op = "textureLoaded" /\ last'.ok /\ last'.from = "upload") =>
           \A object \in AllIds : object # last'.for => materials'[object] = materials[object]]_vars

====
